---- MODULE Spec2Model ----
(***************************************************************************)
(* A model of infodancer/pop3d: the POP3 session state machine and its     *)
(* command loop (handleConnection), the session-pipe store that tunnels    *)
(* mailbox operations to a mail-session process, and the dispatcher that   *)
(* waits for the auth signal and spawns that mail-session.                 *)
(*                                                                         *)
(* Text is modelled as sequences of one-character strings where the code   *)
(* inspects characters (mailbox names, uids, the auth signal on fd 4);     *)
(* client command lines are sequences of whitespace-separated tokens.      *)
(***************************************************************************)
EXTENDS Integers, Sequences, FiniteSets, TLC

VARIABLES
    sess,       \* the Session struct of the protocol-handler
    ps,         \* the sessionPipeStore and the handler's ends of the pipes
    hpc,        \* position of the protocol-handler (handleConnection)
    pend,       \* the command suspended inside the store handshake
    last,       \* the last client line handled, the reply produced for it and
                \* the bytes of it written to the client
    conn,       \* what the connection has observed (history of the session)
    disp,       \* the dispatcher goroutine of the listener
    ms,         \* the mail-session process
    rd,         \* the reader handed out by Retrieve (store harness only)
    lim,        \* the ConnectionLimiter and the goroutines calling it
    lsn         \* the listener: Run, its accept loops and the fds of a connection

vars == <<sess, ps, hpc, pend, last, conn, disp, ms, rd, lim, lsn>>

----------------------------------------------------------------------------
(* Bounds of the model *)

\* messages a mail-session reports in its LIST reply
MaxMsgs == 2
\* GET requests a session may issue before QUIT
MaxRetr == 1
\* payload bytes of a +DATA reply
MaxPayload == 2
\* store operations the store harness issues
MaxOps == 3

----------------------------------------------------------------------------
(* Characters and tokens *)

CR == "\r"
LF == "\n"
SP == " "
TAB == "\t"

\* Spell a short word as a sequence of characters.
Chars(w) ==
    CASE w = "AUTH " -> <<"A", "U", "T", "H", " ">>
      [] w = "USER:" -> <<"U", "S", "E", "R", ":">>
      [] w = "END"   -> <<"E", "N", "D">>
      [] w = "1"     -> <<"1">>
      [] w = "CRLF"  -> <<CR, LF>>

\* RECURSIVE helpers over sequences
RECURSIVE IndexOf(_, _, _)
IndexOf(s, c, i) ==
    IF i > Len(s) THEN 0
    ELSE IF s[i] = c THEN i
    ELSE IndexOf(s, c, i + 1)

Contains(s, c) == IndexOf(s, c, 1) # 0

IsPrefix(p, s) == Len(p) <= Len(s) /\ SubSeq(s, 1, Len(p)) = p

Drop(s, n) == SubSeq(s, n + 1, Len(s))

----------------------------------------------------------------------------
(* Session: state, TLS state and the per-session data *)

StateAuthorization == "AUTHORIZATION"
StateTransaction == "TRANSACTION"
StateUpdate == "UPDATE"

TLSStateNone == "NONE"
TLSStateActive == "ACTIVE"

ModePop3 == "pop3"
ModePop3s == "pop3s"

NoMailbox == <<>>

\* Session created on accept: tlsConfig is TRUE when a *tls.Config is present.
NewSession(mode, tlsConfig, isTLS) ==
    [ state        |-> StateAuthorization,
      tlsState     |-> IF mode = ModePop3s \/ isTLS THEN TLSStateActive ELSE TLSStateNone,
      listenerMode |-> mode,
      tlsConfig    |-> tlsConfig,
      username     |-> "",
      authSession  |-> <<>>,          \* <<>> is nil, <<a>> is the AuthSession a
      saslServer   |-> FALSE,         \* TRUE while a sasl.Server is stored
      saslMech     |-> "",
      mailbox      |-> NoMailbox,
      store        |-> FALSE,         \* TRUE once a store reference is held
      listNil      |-> TRUE,          \* messageList == nil
      messageList  |-> <<>>,
      deletedSet   |-> {} ]

SetTLSActive(s) == [s EXCEPT !.tlsState = TLSStateActive]

\* an IsTLSActive that takes every connection for a TLS connection
IsTLSActiveAlways(s) == TRUE

IsTLSActive(s) == s.tlsState = TLSStateActive

\* a CanSTLS that does not look at the TLS state
CanSTLSAgain(s) == s.listenerMode = ModePop3 /\ s.tlsConfig

CanSTLS(s) ==
    /\ s.state = StateAuthorization
    /\ s.listenerMode = ModePop3
    /\ s.tlsState = TLSStateNone
    /\ s.tlsConfig

SetUsername(s, username) == [s EXCEPT !.username = username]

SetAuthenticated(s, authSession) ==
    [s EXCEPT !.state = StateTransaction, !.authSession = <<authSession>>]

EnterUpdate(s) ==
    IF s.state = StateTransaction THEN [s EXCEPT !.state = StateUpdate] ELSE s

SetSASLServer(s, mech) == [s EXCEPT !.saslMech = mech, !.saslServer = TRUE]

\* a ClearSASL that also forgets the TLS state
ClearSASLAndTLS(s) ==
    [s EXCEPT !.saslServer = FALSE, !.saslMech = "", !.tlsState = TLSStateNone]

ClearSASL(s) == [s EXCEPT !.saslServer = FALSE, !.saslMech = ""]

\* an IsSASLInProgress that never sees the exchange
IsSASLInProgressNever(s) == FALSE

IsSASLInProgress(s) == s.saslServer

\* Capabilities that advertise the login commands whatever the TLS state
CapabilitiesAnyTLS(s) ==
    <<"USER", "TOP", "UIDL", "RESP-CODES", "SASL PLAIN">>
    \o (IF CanSTLS(s) THEN <<"STLS">> ELSE <<>>)

Capabilities(s) ==
    (IF s.tlsState = TLSStateActive THEN <<"USER">> ELSE <<>>)
    \o <<"TOP", "UIDL", "RESP-CODES">>
    \o (IF s.tlsState = TLSStateActive THEN <<"SASL PLAIN">> ELSE <<>>)
    \o (IF CanSTLS(s) THEN <<"STLS">> ELSE <<>>)

Cleanup(s) == [s EXCEPT !.authSession = <<>>]

\* s.deletedSet[n] of a Go map: membership
IsMarked(s, n) == n \in s.deletedSet

RECURSIVE CountVisible(_, _)
CountVisible(s, i) ==
    IF i > Len(s.messageList) THEN 0
    ELSE (IF IsMarked(s, i) THEN 0 ELSE 1) + CountVisible(s, i + 1)

MessageCount(s) == IF s.listNil THEN 0 ELSE CountVisible(s, 1)

RECURSIVE SizeVisible(_, _)
SizeVisible(s, i) ==
    IF i > Len(s.messageList) THEN 0
    ELSE (IF IsMarked(s, i) THEN 0 ELSE s.messageList[i].size) + SizeVisible(s, i + 1)

\* a TotalSize that adds up the marked messages too
TotalSizeAll(s) ==
    LET sum[i \in 0..Len(s.messageList)] ==
            IF i = 0 THEN 0 ELSE sum[i - 1] + s.messageList[i].size
    IN  IF s.listNil THEN 0 ELSE sum[Len(s.messageList)]

TotalSize(s) == IF s.listNil THEN 0 ELSE SizeVisible(s, 1)

ErrNone == "ok"
ErrMailboxNotInitialized == "mailbox not initialized"
ErrNoSuchMessage == "no such message"
ErrMessageDeleted == "message already deleted"

\* a GetMessage that does not look at the deletion marks
GetMessageIgnoringMarks(s, msgNum) ==
    IF s.listNil THEN ErrMailboxNotInitialized
    ELSE IF msgNum < 1 \/ msgNum > Len(s.messageList) THEN ErrNoSuchMessage
    ELSE ErrNone

\* GetMessage: the error, and the message number on success
GetMessage(s, msgNum) ==
    IF s.listNil THEN ErrMailboxNotInitialized
    ELSE IF msgNum < 1 \/ msgNum > Len(s.messageList) THEN ErrNoSuchMessage
    ELSE IF IsMarked(s, msgNum) THEN ErrMessageDeleted
    ELSE ErrNone

\* a MarkDeleted that accepts any message number
MarkDeletedErrAnyNumber(s, msgNum) ==
    IF s.listNil THEN ErrMailboxNotInitialized
    ELSE IF IsMarked(s, msgNum) THEN ErrMessageDeleted
    ELSE ErrNone

MarkDeletedErr(s, msgNum) ==
    IF s.listNil THEN ErrMailboxNotInitialized
    ELSE IF msgNum < 1 \/ msgNum > Len(s.messageList) THEN ErrNoSuchMessage
    ELSE IF IsMarked(s, msgNum) THEN ErrMessageDeleted
    ELSE ErrNone

MarkDeleted(s, msgNum) ==
    IF MarkDeletedErr(s, msgNum) = ErrNone
    THEN [s EXCEPT !.deletedSet = @ \cup {msgNum}]
    ELSE s

\* a ResetDeletions that keeps the marks
ResetDeletionsKeep(s) == s

ResetDeletions(s) == [s EXCEPT !.deletedSet = {}]

\* GetDeletedUIDs: the message numbers whose uid is returned.  The Go map is
\* ranged in an unspecified order; the caller picks the order.
DeletedNums(s) ==
    IF s.listNil THEN {}
    ELSE {n \in s.deletedSet : n >= 1 /\ n <= Len(s.messageList)}

AllMessages(s) ==
    IF s.listNil THEN <<>>
    ELSE SelectSeq([i \in 1..Len(s.messageList) |->
                       [num |-> i, info |-> s.messageList[i]]],
                   LAMBDA m : ~IsMarked(s, m.num))

----------------------------------------------------------------------------
(* The auth signal on fd 4 *)

\* a validateToken that only refuses the empty token
validateTokenNonEmpty(s) == s # <<>>

\* validateToken: TRUE when s is accepted (non-empty, no space, tab, CR or LF)
validateToken(s) ==
    /\ s # <<>>
    /\ ~Contains(s, SP)
    /\ ~Contains(s, TAB)
    /\ ~Contains(s, CR)
    /\ ~Contains(s, LF)

\* writeAuthSignal: the bytes of one auth signal record
writeAuthSignal(username) ==
    Chars("AUTH ") \o Chars("1") \o Chars("CRLF")
    \o Chars("USER:") \o username \o Chars("CRLF")
    \o Chars("END") \o Chars("CRLF")

\* strings.TrimRight(s, "\r")
RECURSIVE TrimRightCR(_)
TrimRightCR(s) ==
    IF s # <<>> /\ s[Len(s)] = CR THEN TrimRightCR(SubSeq(s, 1, Len(s) - 1)) ELSE s

\* strings.TrimSpace
RECURSIVE TrimSpace(_)
TrimSpace(s) ==
    IF s # <<>> /\ s[1] \in {SP, TAB, CR, LF} THEN TrimSpace(Drop(s, 1))
    ELSE IF s # <<>> /\ s[Len(s)] \in {SP, TAB, CR, LF}
         THEN TrimSpace(SubSeq(s, 1, Len(s) - 1))
    ELSE s

\* bufio.Scanner with ScanLines over the bytes buf of a pipe whose write ends
\* are all closed iff eof: the n-th token, "block" when more bytes are awaited,
\* "eof" when the input ended first.
RECURSIVE ScanLine(_, _, _)
ScanLine(buf, eof, n) ==
    LET i == IndexOf(buf, LF, 1) IN
    IF i = 0
    THEN IF ~eof THEN [st |-> "block", text |-> <<>>]
         ELSE IF buf = <<>> \/ n > 1 THEN [st |-> "eof", text |-> <<>>]
         ELSE [st |-> "line", text |-> buf]
    ELSE IF n = 1 THEN [st |-> "line", text |-> SubSeq(buf, 1, i - 1)]
    ELSE ScanLine(Drop(buf, i), eof, n - 1)

\* a reader that is content with the AUTH line
readAuthSignalFirstLine(buf, eof) ==
    LET l1 == ScanLine(buf, eof, 1)
        t1 == TrimRightCR(l1.text)
        bad == [st |-> "err", username |-> <<>>]
    IN  IF l1.st = "block" THEN [st |-> "block", username |-> <<>>]
        ELSE IF l1.st = "eof" THEN bad
        ELSE IF ~IsPrefix(Chars("AUTH "), t1) THEN bad
        ELSE IF TrimSpace(Drop(t1, Len(Chars("AUTH ")))) # Chars("1") THEN bad
        ELSE [st |-> "ok", username |-> TrimRightCR(ScanLine(buf, TRUE, 2).text)]

\* a reader that returns only when the write ends of the pipe are closed
readAuthSignalToEOF(buf, eof) ==
    IF ~eof THEN [st |-> "block", username |-> <<>>]
    ELSE readAuthSignalFirstLine(buf, TRUE)

\* readAuthSignal: [st |-> "ok" | "err" | "block", username]
readAuthSignal(buf, eof) ==
    LET l1 == ScanLine(buf, eof, 1)
        l2 == ScanLine(buf, eof, 2)
        l3 == ScanLine(buf, eof, 3)
        t1 == TrimRightCR(l1.text)
        t2 == TrimRightCR(l2.text)
        t3 == TrimRightCR(l3.text)
        bad == [st |-> "err", username |-> <<>>]
        wait == [st |-> "block", username |-> <<>>]
    IN  IF l1.st = "block" THEN wait
        ELSE IF l1.st = "eof" THEN bad
        ELSE IF ~IsPrefix(Chars("AUTH "), t1) THEN bad
        ELSE IF TrimSpace(Drop(t1, Len(Chars("AUTH ")))) # Chars("1") THEN bad
        ELSE IF l2.st = "block" THEN wait
        ELSE IF l2.st = "eof" THEN bad
        ELSE IF ~IsPrefix(Chars("USER:"), t2) THEN bad
        ELSE IF Drop(t2, Len(Chars("USER:"))) = <<>> THEN bad
        ELSE IF l3.st = "block" THEN wait
        ELSE IF l3.st = "eof" THEN bad
        ELSE IF t3 # Chars("END") THEN bad
        ELSE [st |-> "ok", username |-> Drop(t2, Len(Chars("USER:")))]

----------------------------------------------------------------------------
(* The session pipe store: requests on fd 6, replies on fd 5 *)

maxListCount == 10000000

\* one request line written to sessW
Req(verb, arg) == [verb |-> verb, arg |-> arg]

\* The bytes on fd 5 are kept as items: a whole reply line, or one payload byte.
LineItem(head, uid, nums) == [k |-> "line", head |-> head, uid |-> uid, nums |-> nums]
ByteItem == [k |-> "byte", head |-> "", uid |-> <<>>, nums |-> <<>>]

NewSessionPipeStore ==
    [ ready         |-> FALSE,
      handshakeDone |-> FALSE,
      hsMailbox     |-> <<>>,     \* <<m>> once handshake(m) was called (for the record)
      authBuf       |-> <<>>,     \* bytes written to authPipeW so far
      authCloses    |-> 0,        \* calls of authPipeW.Close()
      sent          |-> <<>>,     \* request lines written to sessW
      inbuf         |-> <<>>,     \* bytes written by the peer and not yet read
      reads         |-> 0 ]       \* reads of sessR that returned

\* results of a store call: st is "done" when the call returned (err = "" for a
\* nil error), "hsSend"/"hsRecv"/"reply" when it is suspended at that point,
\* and "hang" when it waits for bytes a live peer will never send.
Done(p, err) == [p |-> p, st |-> "done", err |-> err, msgs |-> <<>>, n |-> 0, t |-> 0]
Wait(p, at) == [p |-> p, st |-> at, err |-> "", msgs |-> <<>>, n |-> 0, t |-> 0]

RECURSIVE FirstLine(_, _)
FirstLine(buf, i) ==
    IF i > Len(buf) THEN 0
    ELSE IF buf[i].k = "line" THEN i
    ELSE FirstLine(buf, i + 1)

\* bufio.Reader.ReadString('\n') on sessR; junk counts the payload bytes that
\* end up in front of the line.
ReadString(p, eof) ==
    LET i == FirstLine(p.inbuf, 1) IN
    IF i = 0
    THEN IF eof
         THEN [st |-> "eof", line |-> ByteItem, junk |-> Len(p.inbuf),
               p |-> [p EXCEPT !.inbuf = <<>>, !.reads = @ + 1]]
         ELSE [st |-> "block", line |-> ByteItem, junk |-> 0, p |-> p]
    ELSE [st |-> "line", line |-> p.inbuf[i], junk |-> i - 1,
          p |-> [p EXCEPT !.inbuf = Drop(@, i), !.reads = @ + 1]]

\* strings.HasPrefix(strings.TrimRight(line, "\r\n"), head)
HasPrefix(r, head) == r.junk = 0 /\ r.line.head = head

CloseAuthPipe(p) == [p EXCEPT !.authCloses = @ + 1]
\* a handshake that signals a fixed user instead of the mailbox
handshakeBeginFixedUser(p, mailbox, w) ==
    LET p1 == [p EXCEPT !.handshakeDone = TRUE, !.hsMailbox = <<mailbox>>]
        sig == writeAuthSignal(<<"r", "o", "o", "t">>)
    IN  IF ~validateToken(mailbox) THEN Done(CloseAuthPipe(p1), "mailbox invalid")
        ELSE IF w = "none" THEN Done(CloseAuthPipe(p1), "write auth signal")
        ELSE IF w = "part"
             THEN Done(CloseAuthPipe([p1 EXCEPT !.authBuf =
                                          @ \o SubSeq(sig, 1, IndexOf(sig, LF, 1))]),
                       "write auth signal")
        ELSE Wait([p1 EXCEPT !.authBuf = @ \o sig], "hsSend")

\* a handshake that leaves the auth pipe open when the signal cannot be written
handshakeBeginLeak(p, mailbox, w) ==
    LET p1 == [p EXCEPT !.handshakeDone = TRUE, !.hsMailbox = <<mailbox>>]
        sig == writeAuthSignal(mailbox)
    IN  IF ~validateToken(mailbox) THEN Done(CloseAuthPipe(p1), "mailbox invalid")
        ELSE IF w = "none" THEN Done(p1, "write auth signal")
        ELSE IF w = "part"
             THEN Done([p1 EXCEPT !.authBuf = @ \o SubSeq(sig, 1, IndexOf(sig, LF, 1))],
                       "write auth signal")
        ELSE Wait([p1 EXCEPT !.authBuf = @ \o sig], "hsSend")

\* handshake, up to the write of the auth signal.  w is the outcome of the
\* write on fd 4: "full", or a failed write that left a part of the record.
handshakeBegin(p, mailbox, w) ==
    LET p1 == [p EXCEPT !.handshakeDone = TRUE, !.hsMailbox = <<mailbox>>]
        sig == writeAuthSignal(mailbox)
    IN  IF ~validateToken(mailbox) THEN Done(CloseAuthPipe(p1), "mailbox invalid")
        ELSE IF w = "none" THEN Done(CloseAuthPipe(p1), "write auth signal")
        ELSE IF w = "part"
             THEN Done(CloseAuthPipe([p1 EXCEPT !.authBuf =
                                          @ \o SubSeq(sig, 1, IndexOf(sig, LF, 1))]),
                       "write auth signal")
        ELSE Wait([p1 EXCEPT !.authBuf = @ \o sig], "hsSend")

\* a handshake that leaves the auth pipe open when MAILBOX cannot be sent
handshakeSendLeak(p, mailbox, alive) ==
    IF ~alive THEN Done(p, "send MAILBOX")
    ELSE Wait([p EXCEPT !.sent = Append(@, Req("MAILBOX", mailbox))], "hsRecv")

\* handshake: the MAILBOX request
handshakeSend(p, mailbox, alive) ==
    IF ~alive THEN Done(CloseAuthPipe(p), "send MAILBOX")
    ELSE Wait([p EXCEPT !.sent = Append(@, Req("MAILBOX", mailbox))], "hsRecv")

\* handshake: the MAILBOX reply, then the deferred close of the auth pipe
handshakeRecv(p, eof) ==
    LET r == ReadString(p, eof) IN
    IF r.st = "block" THEN Wait(r.p, "hang")
    ELSE IF r.st = "eof" THEN Done(CloseAuthPipe(r.p), "read MAILBOX response")
    ELSE IF ~HasPrefix(r, "+OK") THEN Done(CloseAuthPipe(r.p), "MAILBOX rejected")
    ELSE Done(CloseAuthPipe([r.p EXCEPT !.ready = TRUE]), "")

\* an ensureReady that runs the handshake again when the store is ready
ensureReadyAgain(p) ==
    IF p.handshakeDone /\ ~p.ready THEN "failed" ELSE "handshake"

\* an ensureReady that tries the handshake again after a failure
ensureReadyRetry(p) ==
    IF p.ready THEN "ready" ELSE "handshake"

\* ensureReady: "ready", "failed" or "handshake" (the handshake is to be run)
ensureReady(p) ==
    IF p.ready THEN "ready"
    ELSE IF p.handshakeDone THEN "failed"
    ELSE "handshake"

readOK(p, eof) ==
    LET r == ReadString(p, eof) IN
    IF r.st = "block" THEN Wait(r.p, "hang")
    ELSE IF r.st = "eof" THEN Done(r.p, "read response")
    ELSE IF ~HasPrefix(r, "+OK") THEN Done(r.p, "error reply")
    ELSE Done(r.p, "")

\* The fields of a reply line read where a LIST entry is expected:
\* strings.Fields gives the uid and then the numbers.
HeadChars(h) ==
    CASE h = "+OK"   -> <<"+", "O", "K">>
      [] h = "-ERR"  -> <<"-", "E", "R", "R">>
      [] h = "+DATA" -> <<"+", "D", "A", "T", "A">>
      [] OTHER       -> <<>>

EntryUID(line) == IF line.head = "" THEN line.uid ELSE HeadChars(line.head)

\* List: the loop over the count entries announced by the header
RECURSIVE ListEntries(_, _, _, _)
ListEntries(p, eof, count, msgs) ==
    IF count = 0 THEN [Done(p, "") EXCEPT !.msgs = msgs]
    ELSE LET r == ReadString(p, eof) IN
         IF r.st = "block" THEN Wait(r.p, "hang")
         ELSE IF r.st = "eof" THEN Done(r.p, "LIST entry")
         ELSE IF r.junk + Len(EntryUID(r.line)) = 0 \/ r.line.nums = <<>>
              THEN Done(r.p, "LIST entry malformed")
         ELSE ListEntries(r.p, eof, count - 1,
                  Append(msgs, [uid  |-> [j \in 1..r.junk |-> "x"] \o EntryUID(r.line),
                                size |-> r.line.nums[1]]))

\* List, from the read of the header on
ListReply(p, eof) ==
    LET r == ReadString(p, eof) IN
    IF r.st = "block" THEN Wait(r.p, "hang")
    ELSE IF r.st = "eof" THEN Done(r.p, "read LIST header")
    ELSE IF ~HasPrefix(r, "+OK") THEN Done(r.p, "LIST error")
    ELSE IF r.line.nums = <<>> THEN Done(r.p, "LIST: missing count")
    ELSE IF r.line.nums[1] < 0 \/ r.line.nums[1] > maxListCount
         THEN Done(r.p, "LIST: unreasonable count")
    ELSE ListEntries(r.p, eof, r.line.nums[1], <<>>)

\* Retrieve, from the read of the reply on: n is the limit of the reader
RetrieveReply(p, eof) ==
    LET r == ReadString(p, eof) IN
    IF r.st = "block" THEN Wait(r.p, "hang")
    ELSE IF r.st = "eof" THEN Done(r.p, "read GET response")
    ELSE IF ~HasPrefix(r, "+DATA") THEN Done(r.p, "GET error")
    ELSE IF Len(r.line.nums) # 1 THEN Done(r.p, "GET: invalid data size")
    ELSE [Done(r.p, "") EXCEPT !.n = r.line.nums[1]]

\* Stat, from the read of the reply on
StatReply(p, eof) ==
    LET r == ReadString(p, eof) IN
    IF r.st = "block" THEN Wait(r.p, "hang")
    ELSE IF r.st = "eof" THEN Done(r.p, "read STAT response")
    ELSE IF ~HasPrefix(r, "+OK") THEN Done(r.p, "STAT error")
    ELSE IF Len(r.line.nums) < 2 THEN Done(r.p, "STAT: malformed response")
    ELSE [Done(r.p, "") EXCEPT !.n = r.line.nums[1], !.t = r.line.nums[2]]

StoreOps == {"List", "Stat", "Retrieve", "Delete", "Expunge"}

\* no operation begins with ensureReady
UsesEnsureReadyNever(op) == FALSE

\* the operations that begin with ensureReady(mailbox)
UsesEnsureReady(op) == op \in {"List", "Stat", "Expunge"}

\* the operations that begin with validateToken("uid", uid)
ValidatesUID(op) == op \in {"Retrieve", "Delete"}

\* the request line of an operation
Request(op, uid) ==
    CASE op = "List"     -> Req("LIST", <<>>)
      [] op = "Stat"     -> Req("STAT", <<>>)
      [] op = "Retrieve" -> Req("GET", uid)
      [] op = "Delete"   -> Req("DELETE", uid)
      [] op = "Expunge"  -> Req("COMMIT", <<>>)

\* the part of an operation after its request is written
Reply(op, p, eof) ==
    CASE op = "List"     -> ListReply(p, eof)
      [] op = "Stat"     -> StatReply(p, eof)
      [] op = "Retrieve" -> RetrieveReply(p, eof)
      [] op = "Delete"   -> readOK(p, eof)
      [] op = "Expunge"  -> readOK(p, eof)

----------------------------------------------------------------------------
(* The mail-session process, as the store sees it on fds 5 and 6 *)

\* the i-th message of the mailbox
UidOf(i) == [j \in 1..i |-> "u"]
SizeOf(i) == i

RECURSIVE SumSizes(_)
SumSizes(n) == IF n = 0 THEN 0 ELSE SizeOf(n) + SumSizes(n - 1)

RepKind(kind, n) == [kind |-> kind, n |-> n]

\* what a running mail-session may answer to a request; it is not trusted
Replies(verb) ==
    CASE verb = "MAILBOX" -> {RepKind("ok", 0), RepKind("err", 0)}
      [] verb = "LIST"    -> {RepKind("list", n) : n \in 0..MaxMsgs}
                             \cup {RepKind("count", -1), RepKind("count", maxListCount + 1),
                                   RepKind("ok", 0), RepKind("err", 0)}
      [] verb = "STAT"    -> {RepKind("stat", n) : n \in 0..MaxMsgs}
                             \cup {RepKind("ok", 0), RepKind("err", 0)}
      [] verb = "GET"     -> {RepKind("data", n) : n \in -1..MaxPayload}
                             \cup {RepKind("err", 0)}
      [] verb = "DELETE"  -> {RepKind("ok", 0), RepKind("err", 0)}
      [] verb = "COMMIT"  -> {RepKind("ok", 0), RepKind("err", 0)}

\* the bytes of a reply
Items(rep) ==
    CASE rep.kind = "ok"    -> <<LineItem("+OK", <<>>, <<>>)>>
      [] rep.kind = "err"   -> <<LineItem("-ERR", <<>>, <<>>)>>
      [] rep.kind = "list"  -> <<LineItem("+OK", <<>>, <<rep.n, SumSizes(rep.n)>>)>>
                               \o [i \in 1..rep.n |-> LineItem("", UidOf(i), <<SizeOf(i)>>)]
      [] rep.kind = "count" -> <<LineItem("+OK", <<>>, <<rep.n>>)>>
      [] rep.kind = "stat"  -> <<LineItem("+OK", <<>>, <<rep.n, SumSizes(rep.n)>>)>>
      [] rep.kind = "data"  -> <<LineItem("+DATA", <<>>, <<rep.n>>)>>
                               \o [i \in 1..rep.n |-> ByteItem]

\* One request of an operation after ensureReady: the uid check and the write.
\* alive: some process still holds the far ends of the session pipes.
Exchange(op, uid, p, alive) ==
    IF ValidatesUID(op) /\ ~validateToken(uid) THEN Done(p, "uid invalid")
    ELSE IF ~alive THEN Done(p, "send failed")
    ELSE Wait([p EXCEPT !.sent = Append(@, Request(op, uid))], "reply")

\* A call of List, Stat, Retrieve, Delete or Expunge, up to its first
\* suspension.  w is the outcome of the auth signal write, if it comes to it.
Call(op, uid, mailbox, p, alive, w) ==
    IF ~UsesEnsureReady(op) THEN Exchange(op, uid, p, alive)
    ELSE CASE ensureReady(p) = "ready"     -> Exchange(op, uid, p, alive)
           [] ensureReady(p) = "failed"    -> Done(p, "handshake already failed")
           [] ensureReady(p) = "handshake" -> handshakeBegin(p, mailbox, w)

\* The call resumed where it was suspended; "hang" when the bytes it waits for
\* are not there yet.
Resume(at, op, uid, mailbox, p, alive) ==
    CASE at = "hsSend" -> handshakeSend(p, mailbox, alive)
      [] at = "hsRecv" ->
            LET h == handshakeRecv(p, ~alive) IN
            IF h.st = "hang" \/ h.err # "" THEN h ELSE Exchange(op, uid, h.p, alive)
      [] at = "reply"  -> Reply(op, p, ~alive)

\* the io.LimitReader inside the drainingCloser Retrieve returns
RECURSIVE LeadingBytes(_, _)
LeadingBytes(buf, i) ==
    IF i > Len(buf) \/ buf[i].k # "byte" THEN i - 1 ELSE LeadingBytes(buf, i + 1)

Min(a, b) == IF a < b THEN a ELSE b

\* drainingCloser.Read of at most k bytes: the bytes taken
ReadTake(p, r, k) == IF r.n <= 0 THEN 0 ELSE Min(Min(k, r.n), LeadingBytes(p.inbuf, 1))

ReaderRead(p, r, k) ==
    [p |-> [p EXCEPT !.inbuf = Drop(@, ReadTake(p, r, k)),
                     !.reads = @ + (IF ReadTake(p, r, k) > 0 THEN 1 ELSE 0)],
     r |-> [r EXCEPT !.n = @ - ReadTake(p, r, k), !.got = @ + ReadTake(p, r, k)]]

\* a Close that does not drain
ReaderCloseNoDrain(p, r) ==
    [p |-> p, r |-> [r EXCEPT !.open = FALSE, !.n = 0]]

\* drainingCloser.Close: io.Copy(io.Discard, d.r)
ReaderClose(p, r) ==
    [p |-> ReaderRead(p, r, r.n).p, r |-> [r EXCEPT !.open = FALSE, !.n = 0]]

----------------------------------------------------------------------------
(* Client lines, and the tables for what the commands parse out of them *)

\* a line after strings.TrimSpace, as its whitespace-separated tokens
NumTok(i) == CASE i = 1 -> "1" [] i = 2 -> "2" [] i = 3 -> "3" [] OTHER -> "9"

\* fmt.Sprintf("%d", n)
Itoa(n) ==
    CASE n = 0 -> "0" [] n = 1 -> "1" [] n = 2 -> "2" [] n = 3 -> "3" [] n = 4 -> "4"
      [] n = 5 -> "5" [] n = 6 -> "6" [] n = 7 -> "7" [] n = 8 -> "8" [] n = 9 -> "9"
      [] OTHER -> "n"

ClientLines ==
    { <<"USER", "alice">>, <<"USER", "carol">>, <<"USER", "bob">>, <<"USER", "eve@x">>,
      <<"USER">>,
      <<"PASS", "good">>, <<"PASS", "bad">>, <<"PASS">>,
      <<"AUTH">>, <<"AUTH", "FOO">>, <<"AUTH", "PLAIN">>, <<"AUTH", "PLAIN", "=">>,
      <<"AUTH", "PLAIN", "!!">>, <<"AUTH", "plain", "b64:alice:good">>,
      <<"AUTH", "PLAIN", "b64:alice:bad">>,
      <<"b64:alice:good">>, <<"b64:alice:bad">>, <<"b64:carol:good">>,
      <<"b64:bob:good">>, <<"*">>,
      <<"STLS">>, <<"STLS", "x">>, <<"CAPA">>, <<"NOOP">>, <<"quit">>, <<"QUIT", "x">>,
      <<"STAT">>, <<"LIST">>, <<"LIST", "1">>, <<"RSET">>, <<"UIDL">>, <<"UIDL", "1">>,
      <<"RETR", "1">>, <<"RETR", "x">>, <<"TOP", "1", "0">>, <<"TOP", "1">>, <<"BOGUS">> }
    \cup { <<"DELE", NumTok(i)>> : i \in 1..MaxMsgs + 1 }

\* strings.ToUpper
ToUpper(tok) ==
    CASE tok = "quit" -> "QUIT" [] tok = "plain" -> "PLAIN" [] OTHER -> tok

\* strconv.Atoi
Atoi(tok) ==
    CASE tok = "0" -> [ok |-> TRUE, v |-> 0]
      [] tok = "1" -> [ok |-> TRUE, v |-> 1]
      [] tok = "2" -> [ok |-> TRUE, v |-> 2]
      [] tok = "3" -> [ok |-> TRUE, v |-> 3]
      [] tok = "9" -> [ok |-> TRUE, v |-> 9]
      [] OTHER -> [ok |-> FALSE, v |-> 0]

\* DecodeSASLResponse of a whole line, then bytes.Split on NUL as the PLAIN
\* server does: ok is FALSE for what is not base64; parts are identity,
\* username and password when the decoded bytes hold two NULs.
DecodeSASLResponse(line) ==
    IF Len(line) # 1 THEN [ok |-> FALSE, parts |-> <<>>]
    ELSE CASE line[1] = "b64:alice:good" -> [ok |-> TRUE, parts |-> <<"", "alice", "good">>]
           [] line[1] = "b64:alice:bad"  -> [ok |-> TRUE, parts |-> <<"", "alice", "bad">>]
           [] line[1] = "b64:carol:good" -> [ok |-> TRUE, parts |-> <<"", "carol", "good">>]
           [] line[1] = "b64:bob:good"   -> [ok |-> TRUE, parts |-> <<"", "bob", "good">>]
           [] line[1] \in {"USER", "PASS", "AUTH", "STLS", "CAPA", "NOOP", "quit", "STAT",
                           "LIST", "RSET", "UIDL"} -> [ok |-> TRUE, parts |-> <<line[1]>>]
           [] OTHER -> [ok |-> FALSE, parts |-> <<>>]

\* the error of the auth router for these credentials, "" when it accepts
\* them: alice and carol are users, good is their password
AuthError(username, password) ==
    IF username = "eve@x" THEN "unknown domain"
    ELSE IF username \notin {"alice", "carol"} THEN "unknown user"
    ELSE IF password # "good" THEN "wrong password"
    ELSE ""

\* AuthenticateWithDomain: <<>> for an error, else the AuthSession.  The
\* mailbox of carol is one the auth backend returns with a blank in it.
AuthenticateWithDomain(username, password) ==
    IF AuthError(username, password) # "" THEN <<>>
    ELSE IF username = "alice"
    THEN <<[user |-> "alice", mailbox |-> <<"a", "@", "d">>]>>
    ELSE <<[user |-> "carol", mailbox |-> <<"c", " ", "d">>]>>

\* ParseCommand
ParseCommand(line) == [name |-> ToUpper(line[1]), args |-> Tail(line)]

\* the registry filled by RegisterAuthCommands and RegisterTransactionCommands
Registered ==
    {"CAPA", "STLS", "USER", "PASS", "QUIT", "AUTH",
     "STAT", "LIST", "RETR", "DELE", "RSET", "NOOP", "UIDL", "TOP"}

----------------------------------------------------------------------------
(* Responses and command results *)

Response(ok, msg) ==
    [ok |-> ok, cont |-> FALSE, msg |-> msg, arg |-> "", uid |-> <<>>, nums |-> <<>>,
     lines |-> <<>>]

Continuation == [Response(FALSE, "") EXCEPT !.cont = TRUE]

\* the payload lines of Response.String, each CRLF-terminated, a line that
\* begins with "." prefixed with another "."
RECURSIVE StringLines(_)
StringLines(lines) ==
    IF lines = <<>> THEN <<>>
    ELSE (IF lines[1] # <<>> /\ lines[1][1] = "." THEN <<".">> ELSE <<>>)
         \o lines[1] \o <<CR, LF>> \o StringLines(Tail(lines))

\* Response.String: the bytes of a response, as a sequence of pieces of text
\* (msg stands for the formatted message; the challenge of a continuation is
\* empty with PLAIN)
String(r) ==
    IF r.cont THEN <<"+ ", CR, LF>>
    ELSE <<IF r.ok THEN "+OK" ELSE "-ERR">>
         \o (IF r.msg # "" THEN <<SP, r.msg>> ELSE <<>>)
         \o <<CR, LF>>
         \o (IF Len(r.lines) > 0 THEN StringLines(r.lines) \o <<".", CR, LF>> ELSE <<>>)

\* the result of Execute: the session, the response, and need: "none" when the
\* response is final, "init" when InitializeMailbox has to call List first,
\* "retr" when Retrieve has to be called first (num is the message number).
Result(s, resp) == [sess |-> s, resp |-> resp, need |-> "none", num |-> 0]
NeedInit(s) == [sess |-> s, resp |-> Response(FALSE, ""), need |-> "init", num |-> 0]
NeedRetr(s, num) == [sess |-> s, resp |-> Response(FALSE, ""), need |-> "retr", num |-> num]

ErrState == Response(FALSE, "Command not valid in this state")
ErrTLS == Response(FALSE, "TLS required for authentication")

----------------------------------------------------------------------------
(* The commands of the AUTHORIZATION state *)

capaCommand(s, args) ==
    IF Len(args) > 0 THEN Result(s, Response(FALSE, "CAPA command takes no arguments"))
    ELSE Result(s, [Response(TRUE, "Capability list follows") EXCEPT !.lines = [i \in 1..Len(Capabilities(s)) |-> <<Capabilities(s)[i]>>]])

stlsCommand(s, args) ==
    IF Len(args) > 0 THEN Result(s, Response(FALSE, "STLS command takes no arguments"))
    ELSE IF s.state # StateAuthorization THEN Result(s, ErrState)
    ELSE IF ~CanSTLS(s)
         THEN IF IsTLSActive(s) THEN Result(s, Response(FALSE, "Already using TLS"))
              ELSE Result(s, Response(FALSE, "TLS not available"))
    ELSE Result(s, Response(TRUE, "Begin TLS negotiation"))

\* USER that does not ask for TLS
userCommandAnyTLS(s, args) ==
    IF s.state # StateAuthorization THEN Result(s, ErrState)
    ELSE IF Len(args) # 1
         THEN Result(s, Response(FALSE, "USER command requires username argument"))
    ELSE IF args[1] = "" THEN Result(s, Response(FALSE, "Username cannot be empty"))
    ELSE Result(SetUsername(s, args[1]),
                [Response(TRUE, "User accepted") EXCEPT !.arg = args[1]])

userCommand(s, args) ==
    IF s.state # StateAuthorization THEN Result(s, ErrState)
    ELSE IF ~IsTLSActive(s) THEN Result(s, ErrTLS)
    ELSE IF Len(args) # 1
         THEN Result(s, Response(FALSE, "USER command requires username argument"))
    ELSE IF args[1] = "" THEN Result(s, Response(FALSE, "Username cannot be empty"))
    ELSE Result(SetUsername(s, args[1]),
                [Response(TRUE, "User accepted") EXCEPT !.arg = args[1]])

\* a PASS that tells the client why the login failed
passCommandTelling(s, args, hasStore) ==
    IF s.state # StateAuthorization THEN Result(s, ErrState)
    ELSE IF ~IsTLSActive(s) THEN Result(s, ErrTLS)
    ELSE IF s.username = "" THEN Result(s, Response(FALSE, "No username specified"))
    ELSE IF Len(args) # 1
         THEN Result(s, Response(FALSE, "PASS command requires password argument"))
    ELSE LET result == AuthenticateWithDomain(s.username, args[1]) IN
         IF result = <<>> THEN Result(s, Response(FALSE, AuthError(s.username, args[1])))
         ELSE IF hasStore THEN NeedInit(SetAuthenticated(s, result[1]))
         ELSE Result(SetAuthenticated(s, result[1]),
                     [Response(TRUE, "Logged in as") EXCEPT !.arg = s.username])

\* passCommand, up to the call of InitializeMailbox; hasStore: msgStore # nil
passCommand(s, args, hasStore) ==
    IF s.state # StateAuthorization THEN Result(s, ErrState)
    ELSE IF ~IsTLSActive(s) THEN Result(s, ErrTLS)
    ELSE IF s.username = "" THEN Result(s, Response(FALSE, "No username specified"))
    ELSE IF Len(args) # 1
         THEN Result(s, Response(FALSE, "PASS command requires password argument"))
    ELSE LET result == AuthenticateWithDomain(s.username, args[1]) IN
         IF result = <<>> THEN Result(s, Response(FALSE, "Authentication failed"))
         ELSE IF hasStore THEN NeedInit(SetAuthenticated(s, result[1]))
         ELSE Result(SetAuthenticated(s, result[1]),
                     [Response(TRUE, "Logged in as") EXCEPT !.arg = s.username])

\* passCommand, after InitializeMailbox returned err
passCommandEnd(s, err) ==
    IF err # "" THEN Result(s, Response(FALSE, "Failed to access mailbox"))
    ELSE Result(s, [Response(TRUE, "Logged in as") EXCEPT !.arg = s.username])

\* a QUIT that enters UPDATE from whatever state
quitCommandAlwaysUpdate(s, args) ==
    IF Len(args) > 0 THEN Result(s, Response(FALSE, "QUIT command takes no arguments"))
    ELSE Result([s EXCEPT !.state = StateUpdate], Response(TRUE, "Logging out"))

quitCommand(s, args) ==
    IF Len(args) > 0 THEN Result(s, Response(FALSE, "QUIT command takes no arguments"))
    ELSE IF s.state = StateAuthorization THEN Result(s, Response(TRUE, "Goodbye"))
    ELSE IF s.state = StateTransaction THEN Result(EnterUpdate(s), Response(TRUE, "Logging out"))
    ELSE Result(s, Response(TRUE, "Goodbye"))

\* processSASLStep with the PLAIN server of go-sasl: a response that is not
\* identity NUL username NUL password is an error; otherwise the callback of
\* authCommand runs, up to its call of InitializeMailbox.
processSASLStep(s, parts, hasStore) ==
    IF ~s.saslServer THEN Result(s, Response(FALSE, "No SASL exchange in progress"))
    ELSE IF Len(parts) # 3 THEN Result(ClearSASL(s), Response(FALSE, "Authentication failed"))
    ELSE LET result == AuthenticateWithDomain(parts[2], parts[3]) IN
         IF result = <<>> THEN Result(ClearSASL(s), Response(FALSE, "Authentication failed"))
         ELSE LET s1 == SetUsername(SetAuthenticated(s, result[1]), parts[2]) IN
              IF hasStore THEN NeedInit(s1)
              ELSE Result(ClearSASL(s1), [Response(TRUE, "Logged in as") EXCEPT !.arg = s1.username])

\* processSASLStep, after InitializeMailbox returned err inside the callback
processSASLStepEnd(s, err) ==
    IF err # "" THEN Result(ClearSASL(s), Response(FALSE, "Authentication failed"))
    ELSE Result(ClearSASL(s), [Response(TRUE, "Logged in as") EXCEPT !.arg = s.username])

authCommand(s, args, hasStore) ==
    IF s.state # StateAuthorization THEN Result(s, ErrState)
    ELSE IF ~IsTLSActive(s) THEN Result(s, ErrTLS)
    ELSE IF Len(args) < 1
         THEN Result(s, Response(FALSE, "AUTH command requires mechanism argument"))
    ELSE IF ToUpper(args[1]) # "PLAIN"
         THEN Result(s, [Response(FALSE, "Unsupported mechanism") EXCEPT !.arg = ToUpper(args[1])])
    ELSE LET s1 == SetSASLServer(s, ToUpper(args[1])) IN
         IF Len(args) > 1
         THEN IF args[2] = "=" THEN processSASLStep(s1, <<"">>, hasStore)
              ELSE IF ~DecodeSASLResponse(<<args[2]>>).ok
                   THEN Result(ClearSASL(s1), Response(FALSE, "Invalid base64 encoding"))
              ELSE processSASLStep(s1, DecodeSASLResponse(<<args[2]>>).parts, hasStore)
         ELSE Result(s1, Continuation)

\* a ProcessSASLResponse that does not know the cancellation
ProcessSASLResponseNoCancel(s, line, hasStore) ==
    IF ~DecodeSASLResponse(line).ok
    THEN Result(ClearSASL(s), Response(FALSE, "Invalid base64 encoding"))
    ELSE processSASLStep(s, DecodeSASLResponse(line).parts, hasStore)

ProcessSASLResponse(s, line, hasStore) ==
    IF line = <<"*">> THEN Result(ClearSASL(s), Response(FALSE, "Authentication cancelled"))
    ELSE IF ~DecodeSASLResponse(line).ok
         THEN Result(ClearSASL(s), Response(FALSE, "Invalid base64 encoding"))
    ELSE processSASLStep(s, DecodeSASLResponse(line).parts, hasStore)

\* an InitializeMailbox that does not record the mailbox
InitializeMailboxBeginNoMailbox(s) ==
    [s EXCEPT !.store = TRUE, !.deletedSet = {}]

\* InitializeMailbox, up to its call of store.List
InitializeMailboxBegin(s) ==
    [s EXCEPT !.mailbox = s.authSession[1].mailbox, !.store = TRUE, !.deletedSet = {}]

\* InitializeMailbox, after store.List returned
InitializeMailboxEnd(s, res) ==
    IF res.err # "" THEN s
    ELSE [s EXCEPT !.messageList = res.msgs, !.listNil = FALSE]

----------------------------------------------------------------------------
(* The commands of the TRANSACTION state *)

statCommand(s, args) ==
    IF s.state # StateTransaction THEN Result(s, ErrState)
    ELSE IF Len(args) > 0 THEN Result(s, Response(FALSE, "STAT command takes no arguments"))
    ELSE Result(s, [Response(TRUE, "count size") EXCEPT !.nums = <<MessageCount(s), TotalSize(s)>>])

\* the error of GetMessage as the commands report it
GetMessageResponse(err) ==
    IF err \in {ErrNoSuchMessage, ErrMessageDeleted} THEN Response(FALSE, "No such message")
    ELSE Response(FALSE, "Failed to retrieve message")

listCommand(s, args) ==
    IF s.state # StateTransaction THEN Result(s, ErrState)
    ELSE IF Len(args) = 0
         THEN Result(s, [Response(TRUE, "messages (octets)") EXCEPT
                            !.nums = <<MessageCount(s), TotalSize(s)>>,
                            !.lines = [i \in 1..Len(AllMessages(s)) |->
                                          <<Itoa(AllMessages(s)[i].num), SP,
                                            Itoa(AllMessages(s)[i].info.size)>>]])
    ELSE IF Len(args) # 1
         THEN Result(s, Response(FALSE, "LIST command takes at most one argument"))
    ELSE IF ~Atoi(args[1]).ok THEN Result(s, Response(FALSE, "Invalid message number"))
    ELSE IF GetMessage(s, Atoi(args[1]).v) # ErrNone
         THEN Result(s, GetMessageResponse(GetMessage(s, Atoi(args[1]).v)))
    ELSE Result(s, [Response(TRUE, "num size") EXCEPT
                       !.nums = <<Atoi(args[1]).v, s.messageList[Atoi(args[1]).v].size>>])

\* retrCommand, up to the call of store.Retrieve
retrCommand(s, args) ==
    IF s.state # StateTransaction THEN Result(s, ErrState)
    ELSE IF Len(args) # 1 THEN Result(s, Response(FALSE, "RETR command requires message number"))
    ELSE IF ~Atoi(args[1]).ok THEN Result(s, Response(FALSE, "Invalid message number"))
    ELSE IF GetMessage(s, Atoi(args[1]).v) # ErrNone
         THEN Result(s, GetMessageResponse(GetMessage(s, Atoi(args[1]).v)))
    ELSE IF ~s.store THEN Result(s, Response(FALSE, "Message store not available"))
    ELSE NeedRetr(s, Atoi(args[1]).v)

\* splitMessageLines of a content none of whose bytes ends a line
splitMessageLines(content) == IF content = <<>> THEN <<>> ELSE <<content>>

\* retrCommand, after store.Retrieve returned: content was read from the
\* reader
retrCommandEnd(s, num, err, content) ==
    IF err # "" THEN Result(s, Response(FALSE, "Failed to retrieve message"))
    ELSE Result(s, [Response(TRUE, "octets") EXCEPT
                       !.nums = <<s.messageList[num].size>>,
                       !.lines = splitMessageLines(content)])

deleCommand(s, args) ==
    IF s.state # StateTransaction THEN Result(s, ErrState)
    ELSE IF Len(args) # 1 THEN Result(s, Response(FALSE, "DELE command requires message number"))
    ELSE IF ~Atoi(args[1]).ok THEN Result(s, Response(FALSE, "Invalid message number"))
    ELSE LET err == MarkDeletedErr(s, Atoi(args[1]).v) IN
         IF err = ErrNoSuchMessage THEN Result(s, Response(FALSE, "No such message"))
         ELSE IF err = ErrMessageDeleted THEN Result(s, Response(FALSE, "Message already deleted"))
         ELSE IF err # ErrNone THEN Result(s, Response(FALSE, "Failed to delete message"))
         ELSE Result(MarkDeleted(s, Atoi(args[1]).v),
                     [Response(TRUE, "message deleted") EXCEPT !.nums = <<Atoi(args[1]).v>>])

\* RSET that does not look at the state
rsetCommandAnyState(s, args) ==
    IF Len(args) > 0 THEN Result(s, Response(FALSE, "RSET command takes no arguments"))
    ELSE Result(ResetDeletions(s),
                [Response(TRUE, "maildrop has messages") EXCEPT
                    !.nums = <<MessageCount(ResetDeletions(s))>>])

rsetCommand(s, args) ==
    IF s.state # StateTransaction THEN Result(s, ErrState)
    ELSE IF Len(args) > 0 THEN Result(s, Response(FALSE, "RSET command takes no arguments"))
    ELSE Result(ResetDeletions(s),
                [Response(TRUE, "maildrop has messages") EXCEPT
                    !.nums = <<MessageCount(ResetDeletions(s))>>])

noopCommand(s, args) ==
    IF Len(args) > 0 THEN Result(s, Response(FALSE, "NOOP command takes no arguments"))
    ELSE Result(s, Response(TRUE, ""))

uidlCommand(s, args) ==
    IF s.state # StateTransaction THEN Result(s, ErrState)
    ELSE IF Len(args) = 0
         THEN Result(s, [Response(TRUE, "") EXCEPT
                            !.lines = [i \in 1..Len(AllMessages(s)) |->
                                          <<Itoa(AllMessages(s)[i].num), SP>>
                                          \o AllMessages(s)[i].info.uid]])
    ELSE IF Len(args) # 1
         THEN Result(s, Response(FALSE, "UIDL command takes at most one argument"))
    ELSE IF ~Atoi(args[1]).ok THEN Result(s, Response(FALSE, "Invalid message number"))
    ELSE IF GetMessage(s, Atoi(args[1]).v) # ErrNone
         THEN Result(s, GetMessageResponse(GetMessage(s, Atoi(args[1]).v)))
    ELSE Result(s, [Response(TRUE, "num uid") EXCEPT
                       !.nums = <<Atoi(args[1]).v>>,
                       !.uid = s.messageList[Atoi(args[1]).v].uid])

\* topCommand, up to the call of store.Retrieve
topCommand(s, args) ==
    IF s.state # StateTransaction THEN Result(s, ErrState)
    ELSE IF Len(args) # 2
         THEN Result(s, Response(FALSE, "TOP command requires message number and line count"))
    ELSE IF ~Atoi(args[1]).ok THEN Result(s, Response(FALSE, "Invalid message number"))
    ELSE IF ~Atoi(args[2]).ok \/ Atoi(args[2]).v < 0
         THEN Result(s, Response(FALSE, "Invalid line count"))
    ELSE IF GetMessage(s, Atoi(args[1]).v) # ErrNone
         THEN Result(s, GetMessageResponse(GetMessage(s, Atoi(args[1]).v)))
    ELSE IF ~s.store THEN Result(s, Response(FALSE, "Message store not available"))
    ELSE NeedRetr(s, Atoi(args[1]).v)

\* topCommand, after store.Retrieve returned: extractTopLines read content
topCommandEnd(s, err, content) ==
    IF err # "" THEN Result(s, Response(FALSE, "Failed to retrieve message"))
    ELSE Result(s, [Response(TRUE, "") EXCEPT !.lines = splitMessageLines(content)])

\* cmd.Execute for a registered command, up to its first store call
Execute(s, cmd, hasStore) ==
    CASE cmd.name = "CAPA" -> capaCommand(s, cmd.args)
      [] cmd.name = "STLS" -> stlsCommand(s, cmd.args)
      [] cmd.name = "USER" -> userCommand(s, cmd.args)
      [] cmd.name = "PASS" -> passCommand(s, cmd.args, hasStore)
      [] cmd.name = "QUIT" -> quitCommand(s, cmd.args)
      [] cmd.name = "AUTH" -> authCommand(s, cmd.args, hasStore)
      [] cmd.name = "STAT" -> statCommand(s, cmd.args)
      [] cmd.name = "LIST" -> listCommand(s, cmd.args)
      [] cmd.name = "RETR" -> retrCommand(s, cmd.args)
      [] cmd.name = "DELE" -> deleCommand(s, cmd.args)
      [] cmd.name = "RSET" -> rsetCommand(s, cmd.args)
      [] cmd.name = "NOOP" -> noopCommand(s, cmd.args)
      [] cmd.name = "UIDL" -> uidlCommand(s, cmd.args)
      [] cmd.name = "TOP"  -> topCommand(s, cmd.args)

\* the command after the store call it waited for returned
ExecuteEnd(via, s, num, res, content) ==
    CASE via = "PASS" -> passCommandEnd(InitializeMailboxEnd(s, res), res.err)
      [] via \in {"AUTH", "SASL"} -> processSASLStepEnd(InitializeMailboxEnd(s, res), res.err)
      [] via = "RETR" -> retrCommandEnd(s, num, res.err, content)
      [] via = "TOP"  -> topCommandEnd(s, res.err, content)

----------------------------------------------------------------------------
(* The connection limiter (internal/server): an atomic counter that callers
   on any goroutine raise with TryAcquire and lower with Release *)

\* goroutines calling the limiter, and the largest limit tried
NCallers == 3
MaxLimit == 2
\* calls of TryAcquire made at most, by all goroutines together
MaxCalls == 4

Callers == 1..NCallers

NewConnectionLimiter(max) == [maxConnections |-> max, current |-> 0]

\* sync/atomic CompareAndSwap that stores without comparing
CompareAndSwapBlind(v, old, new) == [ok |-> TRUE, v |-> new]

\* sync/atomic CompareAndSwap on the counter
CompareAndSwap(v, old, new) ==
    IF v = old THEN [ok |-> TRUE, v |-> new] ELSE [ok |-> FALSE, v |-> v]

\* the capacity test of TryAcquire on the value loaded
AtCapacity(l, current) == current >= l.maxConnections

\* Release: current.Add(-1)
Release(l) == [l EXCEPT !.current = @ - 1]

\* Current: current.Load()
Current(l) == l.current

\* a goroutine outside any call: holding no slot, nothing loaded (current is
\* the local of TryAcquire; tried: it has called TryAcquire, won: a call of
\* it returned true, spun: a CompareAndSwap of it has failed)
IdleCaller == [pc |-> "idle", current |-> 0, held |-> FALSE, tried |-> FALSE,
               won |-> FALSE, spun |-> FALSE]

\* the limiter and its callers while the sessions are looked at
IdleLimiter == [l |-> NewConnectionLimiter(0), g |-> [i \in Callers |-> IdleCaller],
                calls |-> 0, releases |-> 0]

----------------------------------------------------------------------------
(* The listener (SubprocessServer): Run, its accept loops, and for every
   accepted connection the fds that spawnHandler and dispatchSession hold *)

\* connections accepted at most
MaxConns == 2

\* the configured listeners: one address for each mode
Listeners == {ModePop3, ModePop3s}

\* the fds of one connection in the listener process: the accepted socket, its
\* dup for the child, and the two ends of the three pipes
FdNames == {"conn", "connFile", "authPipeR", "authPipeW",
            "fromSessR", "fromSessW", "toSessR", "toSessW"}

NoFds == [f \in FdNames |-> [made |-> FALSE, closes |-> 0]]

\* Accept, File and os.Pipe hand out fds; Close is called on each of names
Make(fds, names) ==
    [f \in FdNames |-> IF f \in names THEN [fds[f] EXCEPT !.made = TRUE] ELSE fds[f]]

Close(fds, names) ==
    [f \in FdNames |-> IF f \in names THEN [fds[f] EXCEPT !.closes = @ + 1] ELSE fds[f]]

\* fds open in the listener
OpenFds(fds) == {f \in FdNames : fds[f].made /\ fds[f].closes = 0}

\* where spawnHandler can end
SpawnOutcomes == {"not TCP", "dup failed", "auth pipe failed", "fromSess pipe failed",
                  "toSess pipe failed", "start failed", "spawned"}

\* a spawnHandler that forgets authPipeR when the third pipe cannot be made
spawnHandlerForgetful(how) ==
    LET f0 == Make(NoFds, {"conn"})
        f1 == Close(Make(f0, {"connFile"}), {"conn"})
        f2 == Make(f1, {"authPipeR", "authPipeW"})
        f3 == Make(f2, {"fromSessR", "fromSessW"})
        f4 == Make(f3, {"toSessR", "toSessW"})
    IN  CASE how = "not TCP"              -> Close(f0, {"conn"})
          [] how = "dup failed"           -> Close(f0, {"conn"})
          [] how = "auth pipe failed"     -> Close(f1, {"connFile"})
          [] how = "fromSess pipe failed" -> Close(f2, {"connFile", "authPipeR", "authPipeW"})
          [] how = "toSess pipe failed"   -> Close(f3, {"connFile", "authPipeW",
                                                        "fromSessR", "fromSessW"})
          [] how = "start failed"         -> Close(f4, FdNames \ {"conn"})
          [] how = "spawned"              -> Close(f4, {"connFile", "authPipeW",
                                                        "fromSessR", "toSessW"})

\* spawnHandler: the fds of the connection when it returns at how
spawnHandler(how) ==
    LET f0 == Make(NoFds, {"conn"})
        f1 == Close(Make(f0, {"connFile"}), {"conn"})
        f2 == Make(f1, {"authPipeR", "authPipeW"})
        f3 == Make(f2, {"fromSessR", "fromSessW"})
        f4 == Make(f3, {"toSessR", "toSessW"})
    IN  CASE how = "not TCP"              -> Close(f0, {"conn"})
          [] how = "dup failed"           -> Close(f0, {"conn"})
          [] how = "auth pipe failed"     -> Close(f1, {"connFile"})
          [] how = "fromSess pipe failed" -> Close(f2, {"connFile", "authPipeR", "authPipeW"})
          [] how = "toSess pipe failed"   -> Close(f3, {"connFile", "authPipeR", "authPipeW",
                                                        "fromSessR", "fromSessW"})
          [] how = "start failed"         -> Close(f4, FdNames \ {"conn"})
          [] how = "spawned"              -> Close(f4, {"connFile", "authPipeW",
                                                        "fromSessR", "toSessW"})

\* where dispatchSession can end
DispatchOutcomes == {"auth signal error", "no mail-session path", "lookup failed",
                     "start failed", "spawned"}

\* dispatchSession on the fds: authPipeR is closed when readAuthSignal has
\* returned, toSessR and fromSessW on every path to the return
dispatchSessionFds(fds, how) ==
    LET f1 == Close(fds, {"authPipeR"})
    IN  CASE how = "auth signal error"    -> Close(f1, {"toSessR", "fromSessW"})
          [] how = "no mail-session path" -> Close(f1, {"toSessR", "fromSessW"})
          [] how = "lookup failed"        -> Close(f1, {"toSessR", "fromSessW"})
          [] how = "start failed"         -> Close(f1, {"toSessR", "fromSessW"})
          [] how = "spawned"              -> Close(f1, {"toSessR", "fromSessW"})

\* the goroutines Run hands its context to: the accept loops; spawnHandler
\* and dispatchSession take none
HoldsContext(goroutine) == goroutine = "acceptLoop"

\* a connection just accepted: spawn and dispatch are the outcomes of
\* spawnHandler and dispatchSession, d the position of the dispatcher
\* goroutine, h the protocol-handler process, sig: it has written its auth
\* signal, dctx: the context the dispatcher was given
Accepted == [spawn |-> "", dispatch |-> "", fds |-> Make(NoFds, {"conn"}),
             d |-> "none", h |-> "none", sig |-> FALSE, dctx |-> "none"]

\* Run has listened on every address and started the accept loops
NewListener == [ctx |-> "live", run |-> "serving",
                ln |-> [i \in Listeners |-> "open"],
                loop |-> [i \in Listeners |-> "accept"],
                conns |-> <<>>]

\* the listener while one session is looked at
IdleListener == [NewListener EXCEPT !.loop = [i \in Listeners |-> "exited"]]

----------------------------------------------------------------------------
(* The processes of one connection: the protocol-handler, the dispatcher
   goroutine of the listener, and the mail-session *)

\* some process holds the far ends of the session pipes: the listener until
\* the dispatcher closes its copies, the mail-session while it runs
Alive == ms.state = "running" \/ disp.sessOpen

NoPend == [via |-> "", op |-> "", uid |-> <<>>, mailbox |-> <<>>, num |-> 0,
           at |-> "", todo |-> {}, expunge |-> FALSE]

\* n: bytes the reader may still yield; size and got: the limit it was made
\* with and the bytes read from it before Close (for the record)
NoReader == [open |-> FALSE, n |-> 0, size |-> 0, got |-> 0]

\* the AuthSession the authentication backend returned, kept for the record
Authed(c, s) ==
    IF s.authSession # <<>> THEN [c EXCEPT !.authed = <<s.authSession[1].mailbox>>] ELSE c

Init ==
    /\ \E isTLS \in BOOLEAN, tlsConfig \in BOOLEAN :
          sess = NewSession(IF isTLS THEN ModePop3s ELSE ModePop3, tlsConfig, isTLS)
    /\ ps = NewSessionPipeStore
    /\ hpc = "greet"
    /\ pend = NoPend
    /\ last = [verb |-> "", resp |-> Response(TRUE, ""), wrote |-> FALSE, wire |-> <<>>]
    /\ \E hasStore \in BOOLEAN :
          conn = [hasStore |-> hasStore, authed |-> <<>>, end |-> "", ops |-> 0,
                  deleted |-> {}, expunges |-> 0]
    /\ disp = [pc |-> "wait", sessOpen |-> TRUE, spawned |-> 0, outcome |-> "",
               username |-> <<>>]
    /\ ms = [state |-> "none", answered |-> 0, mailbox |-> ""]
    /\ rd = NoReader
    /\ lim = IdleLimiter
    /\ lsn = IdleListener

\* a return that applies the deletions whenever messages are marked
ReturnApplying(s, reason) ==
    IF s.state = StateTransaction /\ s.store /\ DeletedNums(s) # {} /\ hpc # "quit"
    THEN /\ hpc' = "quit"
         /\ sess' = s
         /\ conn' = Authed(conn, s)
         /\ pend' = [NoPend EXCEPT !.via = "QUIT", !.mailbox = s.mailbox,
                                   !.todo = DeletedNums(s), !.expunge = TRUE]
    ELSE /\ hpc' = "exited"
         /\ sess' = Cleanup(s)
         /\ conn' = [Authed(conn, s) EXCEPT !.end = reason]
         /\ pend' = NoPend

\* an upgrade that reports success although the handshake failed
upgradeToTLSIgnoreFailure(s, tlsok) ==
    IF ~s.tlsConfig THEN [err |-> "no TLS configuration available", sess |-> s]
    ELSE IF ~tlsok THEN [err |-> "", sess |-> s]
    ELSE [err |-> "", sess |-> SetTLSActive(s)]

\* upgradeToTLS: the TLS handshake on the connection (tlsok: it succeeds),
\* then SetTLSActive
upgradeToTLS(s, tlsok) ==
    IF ~s.tlsConfig THEN [err |-> "no TLS configuration available", sess |-> s]
    ELSE IF ~tlsok THEN [err |-> "TLS handshake failed", sess |-> s]
    ELSE [err |-> "", sess |-> SetTLSActive(s)]

\* handleConnection returns: the deferred sess.Cleanup, then the process exits
Return(s, reason) ==
    /\ hpc' = "exited"
    /\ sess' = Cleanup(s)
    /\ conn' = [Authed(conn, s) EXCEPT !.end = reason]
    /\ pend' = NoPend

\* the greeting
HGreet ==
    /\ hpc = "greet"
    /\ \E wok \in BOOLEAN :
          IF wok
          THEN hpc' = "loop" /\ UNCHANGED <<sess, conn, pend>>
          ELSE Return(sess, "greeting failed")
    /\ UNCHANGED <<ps, last, disp, ms, rd>>
    /\ UNCHANGED <<lim, lsn>>

\* the read of the next line fails: the client went away, the command timeout
\* ran out, or the context was cancelled
HReadError ==
    /\ hpc = "loop"
    /\ \E reason \in {"client closed", "read error"} : Return(sess, reason)
    /\ UNCHANGED <<ps, last, disp, ms, rd>>
    /\ UNCHANGED <<lim, lsn>>

\* The response to a line is written and flushed (wok), then the switch on
\* the command name: the TLS upgrade after STLS (tlsok), the return after QUIT.
Finish(s, resp, verb) ==
    \E wok \in BOOLEAN, tlsok \in (IF verb = "STLS" /\ resp.ok THEN BOOLEAN ELSE {TRUE}) :
       /\ last' = [verb |-> verb, resp |-> resp, wrote |-> wok,
                   wire |-> IF wok THEN String(resp) ELSE <<>>]
       /\ IF ~wok THEN Return(s, "write failed")
          ELSE IF verb = "STLS" /\ resp.ok
               THEN IF upgradeToTLS(s, tlsok).err = ""
                    THEN /\ sess' = upgradeToTLS(s, tlsok).sess
                         /\ hpc' = "loop"
                         /\ conn' = Authed(conn, s)
                         /\ pend' = NoPend
                    ELSE Return(upgradeToTLS(s, tlsok).sess, "TLS upgrade failed")
          ELSE IF verb = "QUIT"
               THEN IF s.state = StateUpdate /\ s.store
                    THEN /\ sess' = s
                         /\ hpc' = "quit"
                         /\ conn' = Authed(conn, s)
                         /\ pend' = [NoPend EXCEPT !.via = "QUIT", !.mailbox = s.mailbox,
                                        !.todo = DeletedNums(s),
                                        !.expunge = (DeletedNums(s) # {})]
                    ELSE Return(s, "quit")
          ELSE /\ sess' = s
               /\ hpc' = "loop"
               /\ conn' = Authed(conn, s)
               /\ pend' = NoPend

\* sendError: a failed write is ignored and the loop goes on
SendError(msg) ==
    /\ \E wok \in BOOLEAN :
          last' = [verb |-> "", resp |-> Response(FALSE, msg), wrote |-> wok,
                   wire |-> IF wok THEN String(Response(FALSE, msg)) ELSE <<>>]
    /\ UNCHANGED <<sess, hpc, conn, pend>>

\* GET requests written so far
Gets == Len(SelectSeq(ps.sent, LAMBDA r : r.verb = "GET"))

\* the command waits for a store call: InitializeMailbox calls List,
\* retrCommand and topCommand call Retrieve
Suspend(r, verb) ==
    /\ hpc' = "call"
    /\ conn' = Authed(conn, r.sess)
    /\ UNCHANGED last
    /\ IF r.need = "init"
       THEN /\ sess' = InitializeMailboxBegin(r.sess)
            /\ pend' = [NoPend EXCEPT !.via = verb, !.op = "List",
                           !.mailbox = r.sess.authSession[1].mailbox]
       ELSE /\ Gets < MaxRetr
            /\ sess' = r.sess
            /\ pend' = [NoPend EXCEPT !.via = verb, !.op = "Retrieve",
                           !.num = r.num, !.mailbox = r.sess.mailbox,
                           !.uid = r.sess.messageList[r.num].uid]

\* a line that is empty after strings.TrimSpace is skipped: no response is
\* written, the loop reads the next line
SkipEmpty ==
    /\ last' = [verb |-> "(empty)", resp |-> Response(TRUE, ""), wrote |-> FALSE,
                wire |-> <<>>]
    /\ UNCHANGED <<sess, hpc, conn, pend>>

\* one line of the client, up to the first store call of its command
HLine ==
    /\ hpc = "loop"
    /\ \E line \in ClientLines \cup {<<>>} :
          IF line = <<>> THEN SkipEmpty
          ELSE IF IsSASLInProgress(sess)
          THEN LET r == ProcessSASLResponse(sess, line, conn.hasStore) IN
               IF r.need = "none" THEN Finish(r.sess, r.resp, "SASL")
               ELSE Suspend(r, "SASL")
          ELSE IF ParseCommand(line).name \notin Registered
               THEN SendError("Unknown command")
          ELSE LET r == Execute(sess, ParseCommand(line), conn.hasStore) IN
               IF r.need = "none" THEN Finish(r.sess, r.resp, ParseCommand(line).name)
               ELSE Suspend(r, ParseCommand(line).name)
    /\ UNCHANGED <<ps, disp, ms, rd>>
    /\ UNCHANGED <<lim, lsn>>

\* The store call of the waiting command returned with c: Delete and Expunge
\* errors of QUIT are logged only; RETR reads the reader to its end, TOP
\* stops where its line budget ends (k bytes at most), both close it.  The
\* bytes of a message are whatever the mail-session sent: the first may be
\* a "." (dot).
Continue(c) ==
    IF pend.via = "QUIT"
    THEN /\ ps' = c.p
         /\ hpc' = "quit"
         /\ pend' = [pend EXCEPT !.op = "", !.uid = <<>>, !.at = ""]
         /\ UNCHANGED <<sess, last, conn>>
    ELSE IF pend.via \in {"RETR", "TOP"} /\ c.err = ""
    THEN \E k \in (IF pend.via = "TOP" THEN 0..MaxPayload ELSE {0}), dot \in BOOLEAN :
            LET r0 == [open |-> TRUE, n |-> c.n, size |-> c.n, got |-> 0]
                want == IF pend.via = "RETR" THEN c.n ELSE k
                got == ReaderRead(c.p, r0, want)
                content == [j \in 1..got.r.got |-> IF j = 1 /\ dot THEN "." ELSE "x"]
            IN  /\ ps' = ReaderClose(got.p, got.r).p
                /\ LET r == ExecuteEnd(pend.via, sess, pend.num, c, content)
                   IN Finish(r.sess, r.resp, pend.via)
    ELSE /\ ps' = c.p
         /\ LET r == ExecuteEnd(pend.via, sess, pend.num, c, <<>>)
            IN Finish(r.sess, r.resp, pend.via)

\* the call is suspended at c.st
Suspended(c) ==
    /\ ps' = c.p
    /\ hpc' = "store"
    /\ pend' = [pend EXCEPT !.at = c.st]
    /\ UNCHANGED <<sess, last, conn>>

\* the store call of the waiting command, up to its first suspension
HCall ==
    /\ hpc = "call"
    /\ \E w \in (IF UsesEnsureReady(pend.op) /\ ensureReady(ps) = "handshake"
                 THEN {"full", "part", "none"} ELSE {"full"}) :
          LET c == Call(pend.op, pend.uid, pend.mailbox, ps, Alive, w) IN
          IF c.st = "done" THEN Continue(c) ELSE Suspended(c)
    /\ UNCHANGED <<disp, ms, rd>>
    /\ UNCHANGED <<lim, lsn>>

\* the suspended store call goes on
HResume ==
    /\ hpc = "store"
    /\ LET c == Resume(pend.at, pend.op, pend.uid, pend.mailbox, ps, Alive) IN
          /\ c.st # "hang"
          /\ IF c.st = "done" THEN Continue(c) ELSE Suspended(c)
    /\ UNCHANGED <<disp, ms, rd>>
    /\ UNCHANGED <<lim, lsn>>

\* the QUIT case of the switch: one Delete per uid of GetDeletedUIDs, in the
\* order the map yields them, then Expunge if there was any, then return
HQuit ==
    /\ hpc = "quit"
    /\ IF pend.todo # {}
       THEN \E n \in pend.todo :
               /\ pend' = [pend EXCEPT !.op = "Delete", !.uid = sess.messageList[n].uid,
                                       !.todo = @ \ {n}]
               /\ hpc' = "call"
               /\ conn' = [conn EXCEPT !.deleted = @ \cup {n}]
               /\ UNCHANGED sess
       ELSE IF pend.expunge
       THEN /\ pend' = [pend EXCEPT !.op = "Expunge", !.uid = <<>>, !.expunge = FALSE]
            /\ hpc' = "call"
            /\ conn' = [conn EXCEPT !.expunges = @ + 1]
            /\ UNCHANGED sess
       ELSE Return(sess, "quit")
    /\ UNCHANGED <<ps, last, disp, ms, rd>>
    /\ UNCHANGED <<lim, lsn>>

\* a dispatcher that returns on a failure without closing toSessR and fromSessW
dispatchSessionKeepsPipes ==
    /\ disp.pc = "wait"
    /\ LET sig == readAuthSignal(ps.authBuf, ps.authCloses > 0 \/ hpc = "exited") IN
          /\ sig.st # "block"
          /\ \E how \in {"spawned", "no mail-session path", "lookup failed", "start failed"} :
                IF sig.st = "err"
                THEN /\ disp' = [disp EXCEPT !.pc = "done",
                                             !.outcome = "auth signal error"]
                     /\ UNCHANGED ms
                ELSE IF how # "spawned"
                THEN /\ disp' = [disp EXCEPT !.pc = "done",
                                             !.outcome = how, !.username = sig.username]
                     /\ UNCHANGED ms
                ELSE /\ disp' = [disp EXCEPT !.pc = "done", !.sessOpen = FALSE,
                                             !.outcome = how, !.username = sig.username,
                                             !.spawned = @ + 1]
                     /\ ms' = [state |-> "running", answered |-> 0, mailbox |-> ""]
    /\ UNCHANGED <<sess, ps, hpc, pend, last, conn, rd>>
    /\ UNCHANGED <<lim, lsn>>

\* dispatchSession: readAuthSignal returns, the auth pipe is closed; on an
\* error, without mail-session or domains path, when the credentials lookup
\* fails or the start fails, the session pipe ends are closed and it returns;
\* else the mail-session is started and the parent's copies are closed.
dispatchSession ==
    /\ disp.pc = "wait"
    /\ LET sig == readAuthSignal(ps.authBuf, ps.authCloses > 0 \/ hpc = "exited") IN
          /\ sig.st # "block"
          /\ \E how \in {"spawned", "no mail-session path", "lookup failed", "start failed"} :
                IF sig.st = "err"
                THEN /\ disp' = [disp EXCEPT !.pc = "done", !.sessOpen = FALSE,
                                             !.outcome = "auth signal error"]
                     /\ UNCHANGED ms
                ELSE IF how # "spawned"
                THEN /\ disp' = [disp EXCEPT !.pc = "done", !.sessOpen = FALSE,
                                             !.outcome = how, !.username = sig.username]
                     /\ UNCHANGED ms
                ELSE /\ disp' = [disp EXCEPT !.pc = "done", !.sessOpen = FALSE,
                                             !.outcome = how, !.username = sig.username,
                                             !.spawned = @ + 1]
                     /\ ms' = [state |-> "running", answered |-> 0, mailbox |-> ""]
    /\ UNCHANGED <<sess, ps, hpc, pend, last, conn, rd>>
    /\ UNCHANGED <<lim, lsn>>

\* the mail-session answers the oldest request it has not answered (mailbox:
\* its answer to MAILBOX, for the record)
MSReply ==
    /\ ms.state = "running"
    /\ ms.answered < Len(ps.sent)
    /\ \E rep \in Replies(ps.sent[ms.answered + 1].verb) :
          /\ ps' = [ps EXCEPT !.inbuf = @ \o Items(rep)]
          /\ ms' = [ms EXCEPT !.answered = @ + 1,
                              !.mailbox = IF ps.sent[ms.answered + 1].verb = "MAILBOX"
                                          THEN rep.kind ELSE @]
    /\ UNCHANGED <<sess, hpc, pend, last, conn, disp, rd>>
    /\ UNCHANGED <<lim, lsn>>

\* the mail-session exits
MSExit ==
    /\ ms.state = "running"
    /\ ms' = [ms EXCEPT !.state = "exited"]
    /\ UNCHANGED <<sess, ps, hpc, pend, last, conn, disp, rd>>
    /\ UNCHANGED <<lim, lsn>>

Next ==
    \/ HGreet
    \/ HReadError
    \/ HLine
    \/ HCall
    \/ HResume
    \/ HQuit
    \/ dispatchSession
    \/ MSReply
    \/ MSExit

Spec == Init /\ [][Next]_vars

\* ENABLED <<HResume>>_vars and ENABLED <<dispatchSession>>_vars, spelled
\* out: the suspended store call has the bytes (or the end of file) it waits
\* for; readAuthSignal has its three lines or the end of the auth pipe
HResumeEnabled ==
    /\ hpc = "store"
    /\ Resume(pend.at, pend.op, pend.uid, pend.mailbox, ps, Alive).st # "hang"

dispatchSessionEnabled ==
    /\ disp.pc = "wait"
    /\ readAuthSignal(ps.authBuf, ps.authCloses > 0 \/ hpc = "exited").st # "block"

\* The processes run: the protocol-handler goes on whenever it is not waiting
\* for the client or for bytes of a pipe, the dispatcher goroutine returns
\* from its read once the bytes or the end of the auth pipe are there, and a
\* running mail-session answers the requests it has read.  Nothing is
\* assumed of the client (HLine, HReadError) nor of the mail-session staying
\* alive (MSExit).  The last two conjuncts are WF_vars(HResume) and
\* WF_vars(dispatchSession) with ENABLED spelled out as above.
FairSpec ==
    /\ Spec
    /\ WF_vars(HGreet)
    /\ WF_vars(HCall)
    /\ WF_vars(HQuit)
    /\ WF_vars(MSReply)
    /\ ([]<>~HResumeEnabled \/ []<><<HResume>>_vars)
    /\ ([]<>~dispatchSessionEnabled \/ []<><<dispatchSession>>_vars)

----------------------------------------------------------------------------
(* The store on its own: a caller that issues List, Stat, Retrieve, Delete and
   Expunge in any order, as the tests of sessionpipe_test.go do, against the
   same dispatcher and mail-session *)

Mailboxes == {<<"a", "@", "d">>, <<"c", " ", "d">>}
Uids == {UidOf(1), <<"u", " ">>, <<>>}

StoreInit ==
    /\ sess = NewSession(ModePop3, FALSE, FALSE)
    /\ ps = NewSessionPipeStore
    /\ hpc = "idle"
    /\ pend = NoPend
    /\ last = [verb |-> "", resp |-> Response(TRUE, ""), wrote |-> FALSE, wire |-> <<>>]
    /\ conn = [hasStore |-> TRUE, authed |-> <<>>, end |-> "", ops |-> 0,
               deleted |-> {}, expunges |-> 0]
    /\ disp = [pc |-> "wait", sessOpen |-> TRUE, spawned |-> 0, outcome |-> "",
               username |-> <<>>]
    /\ ms = [state |-> "none", answered |-> 0, mailbox |-> ""]
    /\ rd = NoReader
    /\ lim = IdleLimiter
    /\ lsn = IdleListener

\* the call of op returned with c
Returned(op, c) ==
    /\ ps' = c.p
    /\ hpc' = "idle"
    /\ pend' = NoPend
    /\ last' = [verb |-> op, wrote |-> FALSE, wire |-> <<>>,
                resp |-> [Response(c.err = "", c.err) EXCEPT !.nums = <<c.n, c.t>>,
                                                             !.lines = c.msgs]]
    /\ rd' = IF op = "Retrieve" /\ c.err = ""
             THEN [open |-> TRUE, n |-> c.n, size |-> c.n, got |-> 0]
             ELSE rd

\* the call of op is suspended at c.st
Blocked(op, uid, mailbox, c) ==
    /\ ps' = c.p
    /\ hpc' = "store"
    /\ pend' = [NoPend EXCEPT !.op = op, !.uid = uid, !.mailbox = mailbox, !.at = c.st]
    /\ UNCHANGED <<last, rd>>

\* the caller calls an operation of the store
TCall ==
    /\ hpc = "idle"
    /\ ~rd.open
    /\ conn.ops < MaxOps
    /\ conn' = [conn EXCEPT !.ops = @ + 1]
    /\ \E op \in StoreOps :
       \E uid \in (IF ValidatesUID(op) THEN Uids ELSE {<<>>}) :
       \E mailbox \in (IF UsesEnsureReady(op) /\ ensureReady(ps) = "handshake"
                       THEN Mailboxes ELSE {<<"a", "@", "d">>}) :
       \E w \in (IF UsesEnsureReady(op) /\ ensureReady(ps) = "handshake"
                 THEN {"full", "part", "none"} ELSE {"full"}) :
          LET c == Call(op, uid, mailbox, ps, Alive, w) IN
          IF c.st = "done" THEN Returned(op, c) ELSE Blocked(op, uid, mailbox, c)
    /\ UNCHANGED <<sess, disp, ms>>
    /\ UNCHANGED <<lim, lsn>>

\* the suspended call goes on
TResume ==
    /\ hpc = "store"
    /\ LET c == Resume(pend.at, pend.op, pend.uid, pend.mailbox, ps, Alive) IN
          /\ c.st # "hang"
          /\ IF c.st = "done" THEN Returned(pend.op, c)
             ELSE Blocked(pend.op, pend.uid, pend.mailbox, c)
    /\ UNCHANGED <<sess, conn, disp, ms>>
    /\ UNCHANGED <<lim, lsn>>

\* the caller reads from the reader Retrieve returned
TRead ==
    /\ hpc = "idle"
    /\ rd.open
    /\ \E k \in 1..MaxPayload :
          /\ ReadTake(ps, rd, k) > 0
          /\ ps' = ReaderRead(ps, rd, k).p
          /\ rd' = ReaderRead(ps, rd, k).r
    /\ UNCHANGED <<sess, hpc, pend, last, conn, disp, ms>>
    /\ UNCHANGED <<lim, lsn>>

\* the caller closes the reader
TClose ==
    /\ hpc = "idle"
    /\ rd.open
    /\ ps' = ReaderClose(ps, rd).p
    /\ rd' = ReaderClose(ps, rd).r
    /\ UNCHANGED <<sess, hpc, pend, last, conn, disp, ms>>
    /\ UNCHANGED <<lim, lsn>>

\* the caller's process exits
TExit ==
    /\ hpc = "idle"
    /\ hpc' = "exited"
    /\ UNCHANGED <<sess, ps, pend, last, conn, disp, ms, rd>>
    /\ UNCHANGED <<lim, lsn>>

StoreNext ==
    \/ TCall
    \/ TResume
    \/ TRead
    \/ TClose
    \/ TExit
    \/ dispatchSession
    \/ MSReply
    \/ MSExit

StoreSpec == StoreInit /\ [][StoreNext]_vars

----------------------------------------------------------------------------
(* The limiter on its own: goroutines that call TryAcquire, and Release after
   a TryAcquire of theirs that succeeded, as the tests of limiter_test.go do.
   A step is one atomic operation on the counter. *)

LimiterInit ==
    /\ sess = NewSession(ModePop3, FALSE, FALSE)
    /\ ps = NewSessionPipeStore
    /\ hpc = "idle"
    /\ pend = NoPend
    /\ last = [verb |-> "", resp |-> Response(TRUE, ""), wrote |-> FALSE, wire |-> <<>>]
    /\ conn = [hasStore |-> FALSE, authed |-> <<>>, end |-> "", ops |-> 0,
               deleted |-> {}, expunges |-> 0]
    /\ disp = [pc |-> "wait", sessOpen |-> TRUE, spawned |-> 0, outcome |-> "",
               username |-> <<>>]
    /\ ms = [state |-> "none", answered |-> 0, mailbox |-> ""]
    /\ rd = NoReader
    /\ \E max \in 1..MaxLimit :
          lim = [IdleLimiter EXCEPT !.l = NewConnectionLimiter(max)]
    /\ lsn = IdleListener

\* TryAcquire, the head of its loop: current.Load() and the capacity test;
\* a goroutine that holds no slot starts a call, one whose swap failed goes
\* round the loop
TryAcquireLoad ==
    /\ \E i \in Callers :
          /\ \/ lim.g[i].pc = "retry"
             \/ lim.g[i].pc = "idle" /\ ~lim.g[i].held /\ lim.calls < MaxCalls
          /\ LET current == Current(lim.l)
             IN  lim' = [lim EXCEPT !.calls = IF lim.g[i].pc = "idle" THEN @ + 1 ELSE @,
                                    !.g[i] =
                            IF AtCapacity(lim.l, current)
                            THEN [@ EXCEPT !.pc = "idle", !.current = 0, !.tried = TRUE]
                            ELSE [@ EXCEPT !.pc = "swap", !.current = current,
                                           !.tried = TRUE]]
    /\ UNCHANGED <<sess, ps, hpc, pend, last, conn, disp, ms, rd, lsn>>

\* TryAcquire, the CompareAndSwap(current, current+1): true is returned when
\* it succeeds, the loop goes on when another goroutine was faster
TryAcquireSwap ==
    /\ \E i \in Callers :
          /\ lim.g[i].pc = "swap"
          /\ LET r == CompareAndSwap(lim.l.current, lim.g[i].current, lim.g[i].current + 1)
             IN  lim' = [lim EXCEPT !.l.current = r.v,
                                    !.g[i] = IF r.ok
                                             THEN [@ EXCEPT !.pc = "idle", !.held = TRUE,
                                                            !.current = 0,
                                                            !.won = TRUE]
                                             ELSE [@ EXCEPT !.pc = "retry", !.spun = TRUE]]
    /\ UNCHANGED <<sess, ps, hpc, pend, last, conn, disp, ms, rd, lsn>>

\* a goroutine whose TryAcquire succeeded calls Release
ReleaseSlot ==
    /\ \E i \in Callers :
          /\ lim.g[i].pc = "idle"
          /\ lim.g[i].held
          /\ lim' = [lim EXCEPT !.l = Release(lim.l), !.g[i].held = FALSE,
                                !.releases = @ + 1]
    /\ UNCHANGED <<sess, ps, hpc, pend, last, conn, disp, ms, rd, lsn>>

LimiterNext ==
    \/ TryAcquireLoad
    \/ TryAcquireSwap
    \/ ReleaseSlot

LimiterSpec == LimiterInit /\ [][LimiterNext]_vars

----------------------------------------------------------------------------
(* The listener on its own: Run serves until its context is cancelled, the
   accept loops accept connections, spawnHandler and dispatchSession run as
   goroutines per connection, and the protocol-handler of a connection writes
   its auth signal or exits when its session is over *)

ListenerInit ==
    /\ sess = NewSession(ModePop3, FALSE, FALSE)
    /\ ps = NewSessionPipeStore
    /\ hpc = "idle"
    /\ pend = NoPend
    /\ last = [verb |-> "", resp |-> Response(TRUE, ""), wrote |-> FALSE, wire |-> <<>>]
    /\ conn = [hasStore |-> FALSE, authed |-> <<>>, end |-> "", ops |-> 0,
               deleted |-> {}, expunges |-> 0]
    /\ disp = [pc |-> "wait", sessOpen |-> TRUE, spawned |-> 0, outcome |-> "",
               username |-> <<>>]
    /\ ms = [state |-> "none", answered |-> 0, mailbox |-> ""]
    /\ rd = NoReader
    /\ lim = IdleLimiter
    /\ lsn = NewListener

\* the caller of Run cancels the context
CancelContext ==
    /\ lsn.ctx = "live"
    /\ lsn' = [lsn EXCEPT !.ctx = "cancelled",
                          !.conns = [k \in 1..Len(lsn.conns) |->
                                       IF HoldsContext("dispatchSession") /\ lsn.conns[k].d # "none"
                                       THEN [lsn.conns[k] EXCEPT !.dctx = "cancelled"]
                                       ELSE lsn.conns[k]]]
    /\ UNCHANGED <<sess, ps, hpc, pend, last, conn, disp, ms, rd, lim>>

\* Run, past <-ctx.Done(): every listener is closed, then wg.Wait()
RunShutdown ==
    /\ lsn.run = "serving"
    /\ lsn.ctx = "cancelled"
    /\ lsn' = [lsn EXCEPT !.run = "waiting", !.ln = [i \in Listeners |-> "closed"]]
    /\ UNCHANGED <<sess, ps, hpc, pend, last, conn, disp, ms, rd, lim>>

\* Run: wg.Wait() returns when every accept loop has returned, then Run returns
RunReturn ==
    /\ lsn.run = "waiting"
    /\ \A i \in Listeners : lsn.loop[i] = "exited"
    /\ lsn' = [lsn EXCEPT !.run = "returned"]
    /\ UNCHANGED <<sess, ps, hpc, pend, last, conn, disp, ms, rd, lim>>

\* acceptLoop: Accept returns a connection, go spawnHandler
acceptLoop ==
    /\ \E i \in Listeners :
          /\ lsn.loop[i] = "accept"
          /\ lsn.ln[i] = "open"
          /\ Len(lsn.conns) < MaxConns
          /\ lsn' = [lsn EXCEPT !.conns = Append(@, Accepted)]
    /\ UNCHANGED <<sess, ps, hpc, pend, last, conn, disp, ms, rd, lim>>

\* acceptLoop: Accept returns an error (always when the listener is closed),
\* the loop returns whether or not the context is done
acceptLoopReturn ==
    /\ \E i \in Listeners :
          /\ lsn.loop[i] = "accept"
          /\ lsn' = [lsn EXCEPT !.loop[i] = "exited"]
    /\ UNCHANGED <<sess, ps, hpc, pend, last, conn, disp, ms, rd, lim>>

\* the spawnHandler goroutine of a connection, to its return at how; when
\* the protocol-handler is started, go dispatchSession
spawnHandlerRuns ==
    /\ \E k \in 1..Len(lsn.conns), how \in SpawnOutcomes :
          /\ lsn.conns[k].spawn = ""
          /\ lsn' = [lsn EXCEPT !.conns[k] =
                        [@ EXCEPT !.spawn = how,
                                  !.fds = spawnHandler(how),
                                  !.h = IF how = "spawned" THEN "running" ELSE "none",
                                  !.d = IF how = "spawned" THEN "read" ELSE "none",
                                  !.dctx = IF how = "spawned" /\ HoldsContext("dispatchSession")
                                           THEN lsn.ctx ELSE "none"]]
    /\ UNCHANGED <<sess, ps, hpc, pend, last, conn, disp, ms, rd, lim>>

\* the protocol-handler of a connection writes its auth signal
HandlerSignals ==
    /\ \E k \in 1..Len(lsn.conns) :
          /\ lsn.conns[k].h = "running"
          /\ ~lsn.conns[k].sig
          /\ lsn' = [lsn EXCEPT !.conns[k].sig = TRUE]
    /\ UNCHANGED <<sess, ps, hpc, pend, last, conn, disp, ms, rd, lim>>

\* the protocol-handler of a connection exits: its session is over
HandlerExits ==
    /\ \E k \in 1..Len(lsn.conns) :
          /\ lsn.conns[k].h = "running"
          /\ lsn' = [lsn EXCEPT !.conns[k].h = "exited"]
    /\ UNCHANGED <<sess, ps, hpc, pend, last, conn, disp, ms, rd, lim>>

\* dispatchSession of a connection, from the return of readAuthSignal (the
\* signal is there, or the end of the pipe) to its last statement
dispatchSessionRuns ==
    /\ \E k \in 1..Len(lsn.conns), how \in DispatchOutcomes :
          /\ lsn.conns[k].d = "read"
          /\ lsn.conns[k].sig \/ lsn.conns[k].h = "exited"
          /\ (how = "auth signal error") <=> ~lsn.conns[k].sig
          /\ lsn' = [lsn EXCEPT !.conns[k] =
                        [@ EXCEPT !.dispatch = how,
                                  !.fds = dispatchSessionFds(@, how),
                                  !.d = "reap"]]
    /\ UNCHANGED <<sess, ps, hpc, pend, last, conn, disp, ms, rd, lim>>

\* dispatchSession: the deferred phCmd.Wait() returns when the
\* protocol-handler has exited, and the goroutine ends
dispatchSessionReturns ==
    /\ \E k \in 1..Len(lsn.conns) :
          /\ lsn.conns[k].d = "reap"
          /\ lsn.conns[k].h = "exited"
          /\ lsn' = [lsn EXCEPT !.conns[k].d = "returned"]
    /\ UNCHANGED <<sess, ps, hpc, pend, last, conn, disp, ms, rd, lim>>

ListenerNext ==
    \/ CancelContext
    \/ RunShutdown
    \/ RunReturn
    \/ acceptLoop
    \/ acceptLoopReturn
    \/ spawnHandlerRuns
    \/ HandlerSignals
    \/ HandlerExits
    \/ dispatchSessionRuns
    \/ dispatchSessionReturns

ListenerSpec == ListenerInit /\ [][ListenerNext]_vars

----------------------------------------------------------------------------
(* Properties *)

AuthVerbs == {"USER", "PASS", "AUTH"}

\* the verbs of the requests written to the session pipe so far
SentVerbs == {ps.sent[i].verb : i \in 1..Len(ps.sent)}

\* the handler is between two commands, or gone
AtRest == hpc \in {"loop", "exited"}

\* the handshake was called and has returned
HandshakeReturned ==
    ps.handshakeDone /\ ~(hpc \in {"call", "store"} /\ pend.at \in {"hsSend", "hsRecv"})

C2_ErrKeepsAuthorization ==
    ( /\ AtRest
      /\ last.verb \in {"PASS", "AUTH", "SASL"}
      /\ last.resp # ErrState
      /\ ~last.resp.ok
      /\ ~last.resp.cont )
    => sess.state = StateAuthorization

\* C3: Delete and Expunge are called, and DELETE and COMMIT written to the
\* session pipe, only after a QUIT received in TRANSACTION; a session that
\* ends any other way deletes nothing.
C3_DeleteOnlyAtQuit ==
    ( \/ conn.deleted # {}
      \/ conn.expunges > 0
      \/ SentVerbs \cap {"DELETE", "COMMIT"} # {}
      \/ pend.op \in {"Delete", "Expunge"} )
    => ( /\ last.verb = "QUIT"
         /\ last.resp = Response(TRUE, "Logging out")
         /\ sess.state = StateUpdate
         /\ conn.end \in {"", "quit"} )

C3_Witness ==
    /\ hpc = "exited"
    /\ conn.end = "quit"
    /\ conn.deleted = {2}
    /\ conn.expunges = 1
    /\ SentVerbs = {"MAILBOX", "LIST", "DELETE", "COMMIT"}

\* C4: when a session ends after a QUIT received in TRANSACTION, Delete was
\* called for exactly the messages marked at that moment (DELE i; QUIT gives
\* i, DELE i; RSET; QUIT does not), followed by Expunge if there was any.
C4_QuitDeletesMarked ==
    (hpc = "exited" /\ sess.state = StateUpdate)
    => ( /\ conn.deleted = DeletedNums(sess)
         /\ conn.expunges = (IF DeletedNums(sess) # {} THEN 1 ELSE 0) )

\* C5: bytes are on the auth pipe only if the authentication backend accepted
\* the client's credentials, and the username of the signal, as written and
\* as the dispatcher parses it, is the mailbox of the authenticated user.
C5_SignalOnlyWhenAuthenticated ==
    /\ ps.authBuf # <<>>
          => /\ conn.authed # <<>>
             /\ sess.state # StateAuthorization
             /\ IsPrefix(ps.authBuf, writeAuthSignal(conn.authed[1]))
             /\ sess.mailbox = conn.authed[1]
    /\ disp.username # <<>> => conn.authed = <<disp.username>>

C5_Witness ==
    /\ ps.authBuf = writeAuthSignal(<<"a", "@", "d">>)
    /\ disp.username = <<"a", "@", "d">>
    /\ last.verb = "PASS"
    /\ last.resp.ok

\* C6: the store closes the auth pipe exactly once: not before the handshake,
\* once by the time the handshake has returned, whatever its outcome, and no
\* later store operation closes it again.
C6_AuthPipeClosedOnce ==
    /\ ps.authCloses <= 1
    /\ ~ps.handshakeDone => ps.authCloses = 0
    /\ HandshakeReturned => ps.authCloses = 1

C6_Witness ==
    /\ hpc = "idle"
    /\ ps.handshakeDone
    /\ ~ps.ready
    /\ ps.authCloses = 1
    /\ last.resp.msg = "send MAILBOX"
    /\ conn.ops >= 2

\* C7 as stated: once the handshake has returned, the auth pipe holds exactly
\* one auth signal record for the mailbox.
C7_WrittenExactlyOnce ==
    HandshakeReturned => ps.authBuf = writeAuthSignal(ps.hsMailbox[1])

\* C7 amended: the auth pipe is written at most once: it holds nothing or
\* (a prefix of) the one auth signal record of the mailbox, the complete
\* record once MAILBOX has been sent, and no step after the handshake has
\* returned adds to it.
C7_WrittenAtMostOnce ==
    [][ /\ ps'.authBuf # <<>> =>
             /\ ps'.handshakeDone
             /\ IsPrefix(ps'.authBuf, writeAuthSignal(ps'.hsMailbox[1]))
        /\ "MAILBOX" \in {ps'.sent[i].verb : i \in 1..Len(ps'.sent)} =>
             ps'.authBuf = writeAuthSignal(ps'.hsMailbox[1])
        /\ HandshakeReturned => ps'.authBuf = ps.authBuf ]_vars

C7_Witness ==
    /\ hpc = "idle"
    /\ ps.ready
    /\ ps.authBuf = writeAuthSignal(<<"a", "@", "d">>)
    /\ conn.ops = MaxOps
    /\ last.verb = "List"

\* C8: a store operation called after the handshake failed returns an error
\* at once, without changing the store, writing a request or reading a byte.
C8_FailedHandshakeIsTerminal ==
    [][ ( /\ hpc = "idle"
          /\ ps.handshakeDone
          /\ ~ps.ready
          /\ conn'.ops = conn.ops + 1 )
        => ( /\ ps' = ps
             /\ hpc' = "idle"
             /\ ~last'.resp.ok ) ]_vars

\* C9: after the reader of a Retrieve is closed, whatever was read from it
\* before, no byte of the payload is left in the session pipe: between two
\* operations the pipe holds nothing, and while the reader is open it holds
\* exactly the bytes the reader has yet to yield.
C9_CloseDrains ==
    hpc = "idle" =>
       IF rd.open
       THEN rd.n > 0 => (Len(ps.inbuf) = rd.n /\ LeadingBytes(ps.inbuf, 1) = rd.n)
       ELSE ps.inbuf = <<>>

C9_Witness ==
    /\ hpc = "idle"
    /\ ~rd.open
    /\ rd.size = 2
    /\ rd.got = 1
    /\ last.verb = "Delete"
    /\ last.resp.ok

\* C10: the dispatcher starts at most one mail-session, and only when the
\* auth pipe holds one complete auth signal, whose username it takes; when
\* the pipe ends before that, it closes the session pipe ends and starts none.
C10_SpawnOnlyAfterSignal ==
    /\ disp.spawned <= 1
    /\ ms.state # "none" => disp.spawned = 1
    /\ disp.spawned = 1 =>
          /\ disp.outcome = "spawned"
          /\ disp.username # <<>>
          /\ ps.authBuf = writeAuthSignal(disp.username)
    /\ (disp.pc = "done" /\ \A u \in Mailboxes : ps.authBuf # writeAuthSignal(u)) =>
          /\ disp.outcome = "auth signal error"
          /\ disp.spawned = 0
          /\ ~disp.sessOpen
          /\ ms.state = "none"

C10_Witness ==
    /\ disp.pc = "done"
    /\ disp.outcome = "auth signal error"
    /\ hpc = "exited"
    /\ conn.authed = <<>>
    /\ ps.authBuf = <<>>
    /\ ms.state = "none"

C10_WitnessSpawned ==
    /\ disp.spawned = 1
    /\ ms.state = "running"
    /\ ps.authBuf = writeAuthSignal(<<"a", "@", "d">>)

\* the step is the handler taking one client line: the command is executed
\* up to its response or up to its first store call
LineStep ==
    /\ hpc = "loop"
    /\ disp' = disp
    /\ ms' = ms
    /\ conn'.end \notin {"client closed", "read error"}

\* the command name of the line taken in a LineStep ("" when unknown,
\* "SASL" for a SASL response)
Handled == IF hpc' = "call" THEN pend'.via ELSE last'.verb

TransactionVerbs == {"STAT", "LIST", "RETR", "DELE", "RSET", "TOP", "UIDL"}

AuthorizationVerbs == {"USER", "PASS", "AUTH", "STLS"}

\* C11: a TRANSACTION command handled outside TRANSACTION, and USER, PASS,
\* AUTH or STLS handled outside AUTHORIZATION, is answered -ERR, makes no
\* store call and leaves the session and the store as they were.
C11_OnlyInPermittedState ==
    [][ ( /\ LineStep
          /\ ~IsSASLInProgress(sess)
          /\ \/ Handled \in TransactionVerbs /\ sess.state # StateTransaction
             \/ Handled \in AuthorizationVerbs /\ sess.state # StateAuthorization )
        => ( /\ hpc' \in {"loop", "exited"}
             /\ last'.verb = Handled
             /\ ~last'.resp.ok
             /\ ~last'.resp.cont
             /\ sess' \in {sess, Cleanup(sess)}
             /\ ps' = ps
             /\ rd' = rd ) ]_vars

C11_Witness ==
    /\ hpc = "loop"
    /\ sess.state = StateTransaction
    /\ last.verb = "USER"
    /\ last.resp = ErrState
    /\ last.wrote
    /\ sess.username = "alice"
    /\ ~sess.listNil

\* C12 as stated: while the handler runs, TRANSACTION implies that the auth
\* session is set and the mailbox identifier is not empty.
C12_TransactionHasMailbox ==
    (sess.state = StateTransaction /\ hpc # "exited")
    => (sess.authSession # <<>> /\ sess.mailbox # NoMailbox)

\* C12 amended: while the handler runs, TRANSACTION implies that the auth
\* session is set, and that the mailbox identifier is the mailbox of the
\* authenticated user whenever a message store is configured; without a
\* store the session is in TRANSACTION with no mailbox.
C12_TransactionHasAuthSession ==
    (sess.state = StateTransaction /\ hpc # "exited")
    => /\ sess.authSession # <<>>
       /\ IF conn.hasStore
          THEN sess.mailbox # NoMailbox /\ sess.mailbox = sess.authSession[1].mailbox
          ELSE sess.mailbox = NoMailbox

C12_Witness ==
    /\ hpc = "loop"
    /\ conn.hasStore
    /\ sess.state = StateTransaction
    /\ sess.mailbox = <<"a", "@", "d">>
    /\ last.verb = "PASS"
    /\ last.resp.ok

\* C13: tls_state never goes from ACTIVE to NONE, whatever the handler does
\* (a rejected STLS, a failed login, RSET, QUIT, the return), and it goes
\* from NONE to ACTIVE only in the step that answers STLS with +OK.
C13_TLSMonotone ==
    [][ /\ sess.tlsState = TLSStateActive => sess'.tlsState = TLSStateActive
        /\ sess'.tlsState # sess.tlsState =>
              /\ sess.tlsState = TLSStateNone
              /\ last'.verb = "STLS"
              /\ last'.resp.ok ]_vars

C13_Witness ==
    /\ sess.listenerMode = ModePop3
    /\ sess.tlsState = TLSStateActive
    /\ sess.state = StateUpdate
    /\ hpc = "exited"
    /\ conn.deleted # {}

\* STLS is eligible in session s
STLSEligible(s) ==
    /\ s.state = StateAuthorization
    /\ s.listenerMode = ModePop3
    /\ s.tlsState = TLSStateNone
    /\ s.tlsConfig

\* C14: STLS is answered +OK only when it is eligible; when it is not, it is
\* answered -ERR and the TLS state stays as it was; after a +OK the TLS
\* state is ACTIVE or the handler has returned, so no second STLS succeeds.
C14_STLSOnlyWhenEligible ==
    [][ (LineStep /\ ~IsSASLInProgress(sess) /\ Handled = "STLS")
        => ( /\ last'.verb = "STLS"
             /\ last'.resp.ok => STLSEligible(sess)
             /\ ~STLSEligible(sess) =>
                   /\ ~last'.resp.ok
                   /\ ~last'.resp.cont
                   /\ sess'.tlsState = sess.tlsState
             /\ last'.resp.ok => (sess'.tlsState = TLSStateActive \/ hpc' = "exited") ) ]_vars

C14_Witness ==
    /\ hpc = "loop"
    /\ last.verb = "STLS"
    /\ last.resp = Response(TRUE, "Begin TLS negotiation")
    /\ sess.listenerMode = ModePop3
    /\ sess.tlsState = TLSStateActive
    /\ sess.state = StateAuthorization

\* C15: when the TLS handshake after the +OK to STLS fails, the handler
\* returns in that very step with the TLS state still NONE, and nothing a
\* client sends is read or executed after the handler has returned.
C15_FailedUpgradeTerminates ==
    [][ /\ ( /\ LineStep
             /\ Handled = "STLS"
             /\ last'.resp.ok
             /\ sess'.tlsState # TLSStateActive )
           => ( /\ hpc' = "exited"
                /\ sess'.tlsState = TLSStateNone
                /\ conn'.end \in {"TLS upgrade failed", "write failed"} )
        /\ conn.end = "TLS upgrade failed"
           => ( /\ hpc = "exited"
                /\ sess.tlsState = TLSStateNone
                /\ UNCHANGED <<sess, hpc, pend, last, conn, rd>> ) ]_vars

C15_Witness ==
    /\ hpc = "exited"
    /\ conn.end = "TLS upgrade failed"
    /\ last.verb = "STLS"
    /\ last.resp.ok
    /\ last.wrote
    /\ sess.tlsState = TLSStateNone

AuthFailed == Response(FALSE, "Authentication failed")

C17_EveryLineRouted ==
    [][ LineStep => ((Handled = "SASL") <=> sess.saslServer) ]_vars

\* C17 amended: the handler takes a non-empty client line as a SASL
\* response, handing all of it to the SASL step, exactly when a SASL server
\* is set in the session at the time it reads the line; such a line is never
\* executed as a command (a "quit" does not end the session), any other
\* non-empty line is looked up as one; an empty line is skipped in either
\* case and leaves the exchange as it is.
C17_SASLLineRouting ==
    [][ /\ (LineStep /\ Handled = "(empty)") => UNCHANGED <<sess, hpc, ps>>
        /\ (LineStep /\ Handled # "(empty)")
        => ( /\ (Handled = "SASL") <=> sess.saslServer
             /\ sess.saslServer =>
                   /\ conn'.end # "quit"
                   /\ hpc' # "quit"
                   /\ sess'.tlsState = sess.tlsState
                   /\ sess'.username # sess.username => sess'.state = StateTransaction
             /\ ~sess.saslServer => Handled \in Registered \cup {""} ) ]_vars

C17_Witness ==
    /\ hpc = "loop"
    /\ last.verb = "SASL"
    /\ last.resp = Response(FALSE, "Invalid base64 encoding")
    /\ last.wrote
    /\ ~sess.saslServer
    /\ sess.state = StateAuthorization

Cancelled == Response(FALSE, "Authentication cancelled")

\* C18: while a SASL exchange is active the line "*" is answered -ERR
\* Authentication cancelled with the SASL state cleared and nothing else of
\* the session changed; after that reply the session is in AUTHORIZATION
\* with no exchange, and the next non-empty line is looked up as a command.
C18_SASLCancel ==
    [][ LineStep
        => ( /\ sess.saslServer =>
                   ProcessSASLResponse(sess, <<"*">>, conn.hasStore)
                      = Result(ClearSASL(sess), Cancelled)
             /\ (Handled = "SASL" /\ last'.resp = Cancelled) =>
                   /\ sess.saslServer
                   /\ sess' \in {ClearSASL(sess), Cleanup(ClearSASL(sess))}
                   /\ sess'.state = StateAuthorization
                   /\ ~sess'.saslServer
                   /\ sess'.saslMech = ""
                   /\ hpc' \in {"loop", "exited"}
             /\ (last.verb = "SASL" /\ last.resp = Cancelled /\ Handled # "(empty)") =>
                   Handled \in Registered \cup {""} ) ]_vars

C18_Witness ==
    /\ hpc = "loop"
    /\ last.verb = "SASL"
    /\ last.resp = Cancelled
    /\ last.wrote
    /\ sess.state = StateAuthorization
    /\ ~sess.saslServer
    /\ sess.saslMech = ""

\* C19: once the session is in UPDATE no client line is read any more (the
\* handler is in the QUIT case or has returned, the last line handled is
\* the QUIT answered +OK Logging out), and when the handler has returned
\* every message marked has been handed to Delete, followed by one Expunge.
C19_UpdateTerminal ==
    sess.state = StateUpdate
    => ( /\ hpc \in {"quit", "call", "store", "exited"}
         /\ last.verb = "QUIT"
         /\ last.resp = Response(TRUE, "Logging out")
         /\ (hpc = "exited" /\ sess.store) =>
               /\ pend.todo = {}
               /\ \A n \in DeletedNums(sess) : n \in conn.deleted
               /\ DeletedNums(sess) # {} => conn.expunges = 1 )

\* the part of C19 that the code keeps: UPDATE is never left and no line is
\* handled in it
C19_NoCommandInUpdate ==
    [][ sess.state = StateUpdate
        => ( /\ sess'.state = StateUpdate
             /\ last' = last
             /\ hpc' # "loop"
             /\ ~LineStep ) ]_vars

\* C20 as stated: whenever the handler is about to read a line, the response
\* to the last non-empty line it handled has been written and flushed.
C20_WrittenBeforeNextRead ==
    (hpc = "loop" /\ last.verb # "(empty)" /\ last.resp # Response(TRUE, ""))
    => last.wrote

\* the part of C20 that the code keeps: a non-empty line gets its one
\* response in the step that takes it, or its command waits in a store call
\* and the response comes
\* when that call has returned, for this command and before any other line
\* is taken; the loop goes on to the next line only when the response has
\* been written and flushed, except for the -ERR of sendError (unknown
\* command), whose write error is ignored; nothing is answered after the
\* response to QUIT.
C20_OneResponsePerLine ==
    [][ /\ (LineStep /\ Handled # "(empty)")
           => \/ hpc' = "call" /\ last' = last /\ pend'.via = Handled
              \/ /\ hpc' \in {"loop", "quit", "exited"}
                 /\ last'.verb = Handled
                 /\ hpc' # "exited" => (last'.wrote \/ (last'.verb = "" /\ ~last'.resp.ok))
        /\ (hpc \in {"call", "store"} /\ pend.via # "QUIT")
           => \/ hpc' \in {"call", "store"} /\ last' = last /\ pend'.via = pend.via
              \/ /\ hpc' \in {"loop", "quit", "exited"}
                 /\ last'.verb = pend.via
                 /\ hpc' # "exited" => last'.wrote
        /\ (hpc \in {"quit", "exited"} \/ pend.via = "QUIT")
           => (last' = last /\ hpc' # "loop") ]_vars

C20_Witness ==
    /\ hpc = "loop"
    /\ last.verb = "RETR"
    /\ last.resp.ok
    /\ last.wrote
    /\ ps.inbuf = <<>>
    /\ Gets = 1

\* C21: every multi-line response written to the client (CAPA, LIST and UIDL
\* without argument, RETR, TOP) is the status line, then each payload line
\* CRLF-terminated with a leading "." doubled, then the terminator line "."
\* CRLF, whatever the number of payload lines, none included.
C21_MultiLineFramed ==
    ( /\ last.wrote
      /\ last.resp.ok
      /\ \/ last.verb \in {"CAPA", "RETR", "TOP"}
         \/ last.verb = "LIST" /\ last.resp.msg = "messages (octets)"
         \/ last.verb = "UIDL" /\ last.resp.msg = "" )
    => LET lines == last.resp.lines
           status == <<"+OK">> \o (IF last.resp.msg # "" THEN <<SP, last.resp.msg>> ELSE <<>>)
                     \o <<CR, LF>>
           stuffed(l) == IF l # <<>> /\ l[1] = "." THEN <<".">> \o l ELSE l
           payload[i \in 0..Len(lines)] ==
               IF i = 0 THEN <<>> ELSE payload[i - 1] \o stuffed(lines[i]) \o <<CR, LF>>
       IN  last.wire = status \o payload[Len(lines)] \o <<".", CR, LF>>

\* the part of C21 that the code keeps: a multi-line response with at least
\* one payload line is framed as C21 says
C21_NonEmptyFramed ==
    ( /\ last.wrote
      /\ last.resp.ok
      /\ last.resp.lines # <<>>
      /\ \/ last.verb \in {"CAPA", "RETR", "TOP"}
         \/ last.verb = "LIST" /\ last.resp.msg = "messages (octets)"
         \/ last.verb = "UIDL" /\ last.resp.msg = "" )
    => LET lines == last.resp.lines
           n == Len(last.wire)
       IN  /\ n >= 6
           /\ SubSeq(last.wire, n - 2, n) = <<".", CR, LF>>
           /\ \A i \in 1..Len(lines) :
                 \E j \in 1..n - Len(lines[i]) - 1 :
                    /\ SubSeq(last.wire, j, j + Len(lines[i]) + 1) = lines[i] \o <<CR, LF>>
                    /\ lines[i][1] = "." => last.wire[j - 1] = "."

C21_WitnessDot ==
    /\ last.verb = "RETR"
    /\ last.wrote
    /\ last.wire = <<"+OK", SP, "octets", CR, LF, ".", ".", "x", CR, LF, ".", CR, LF>>

C21_WitnessEmptyList ==
    /\ last.verb = "LIST"
    /\ last.wrote
    /\ last.wire = <<"+OK", SP, "messages (octets)", CR, LF>>

\* the replies to a client protocol error: an unknown command, a wrong number
\* of arguments, a command not valid in the state, a message number or line
\* count that is not a number
ClientErrors ==
    { "Unknown command", "Command not valid in this state", "Invalid message number",
      "Invalid line count",
      "CAPA command takes no arguments", "STLS command takes no arguments",
      "USER command requires username argument", "PASS command requires password argument",
      "QUIT command takes no arguments", "AUTH command requires mechanism argument",
      "STAT command takes no arguments", "LIST command takes at most one argument",
      "RETR command requires message number", "DELE command requires message number",
      "RSET command takes no arguments", "NOOP command takes no arguments",
      "UIDL command takes at most one argument",
      "TOP command requires message number and line count" }

\* C22: a line that is a client protocol error is answered -ERR, leaves the
\* protocol state, the TLS state, the username and the deletion marks as they
\* were, and, its reply written, the handler goes on to read the next line.
C22_ClientErrorKeepsSession ==
    [][ ( /\ LineStep
          /\ hpc' # "call"
          /\ last'.verb \notin {"SASL", "(empty)"}
          /\ last'.resp.msg \in ClientErrors
          /\ last'.wrote )
        => ( /\ ~last'.resp.ok
             /\ sess'.state = sess.state
             /\ sess'.tlsState = sess.tlsState
             /\ sess'.username = sess.username
             /\ sess'.deletedSet = sess.deletedSet
             /\ hpc' = "loop" ) ]_vars

\* the part of C22 that the code keeps: every client protocol error but a QUIT
\* with arguments
C22_ClientErrorButQuit ==
    [][ ( /\ LineStep
          /\ hpc' # "call"
          /\ last'.verb \notin {"SASL", "(empty)", "QUIT"}
          /\ last'.resp.msg \in ClientErrors
          /\ last'.wrote )
        => ( /\ ~last'.resp.ok
             /\ sess'.state = sess.state
             /\ sess'.tlsState = sess.tlsState
             /\ sess'.username = sess.username
             /\ sess'.deletedSet = sess.deletedSet
             /\ hpc' = "loop" ) ]_vars

C22_WitnessQuitArgs ==
    /\ hpc = "exited"
    /\ conn.end = "quit"
    /\ last.verb = "QUIT"
    /\ last.resp = Response(FALSE, "QUIT command takes no arguments")
    /\ last.wrote
    /\ sess.state = StateTransaction
    /\ sess.deletedSet # {}

\* C23: a mailbox name or uid that is empty or holds a space, tab, CR or LF
\* is rejected with an error before anything is written: the call returns an
\* error at once and leaves both pipes as they were, so that the auth pipe
\* never holds a byte of such a mailbox and no request on the session pipe
\* carries such a mailbox or uid.
C23_InvalidTokenNeverWritten ==
    LET bad(t) == t = <<>> \/ \E i \in 1..Len(t) : t[i] \in {SP, TAB, CR, LF} IN
    /\ \A i \in 1..Len(ps.sent) :
          ps.sent[i].verb \in {"MAILBOX", "GET", "DELETE"} => ~bad(ps.sent[i].arg)
    /\ (ps.hsMailbox # <<>> /\ bad(ps.hsMailbox[1])) => (ps.authBuf = <<>> /\ ~ps.ready)
    /\ (hpc = "store" /\ pend.op \in {"Retrieve", "Delete"}) => ~bad(pend.uid)
    /\ (hpc = "store" /\ pend.at \in {"hsSend", "hsRecv"}) => ~bad(pend.mailbox)
    /\ \A op \in {"Retrieve", "Delete"}, uid \in Uids :
          bad(uid)
             => LET c == Call(op, uid, <<"a", "@", "d">>, ps, Alive, "full")
                IN  c.st = "done" /\ c.err # "" /\ c.p = ps
    /\ \A op \in {"List", "Stat", "Expunge"}, mailbox \in Mailboxes :
          (bad(mailbox) /\ ensureReady(ps) = "handshake")
             => LET c == Call(op, <<>>, mailbox, ps, Alive, "full")
                IN  /\ c.st = "done" /\ c.err # ""
                    /\ c.p.authBuf = ps.authBuf /\ c.p.sent = ps.sent

C23_Witness ==
    /\ hpc = "idle"
    /\ ps.hsMailbox = << <<"c", " ", "d">> >>
    /\ last.verb = "Retrieve"
    /\ last.resp.msg = "uid invalid"
    /\ ps.authBuf = <<>>
    /\ ps.sent = <<>>
    /\ ps.authCloses = 1

\* C24: the handshake is started by the first call of List, Stat or Expunge,
\* whichever comes first, and by nothing else; MAILBOX is written at most
\* once per store; once the handshake has succeeded an operation writes its
\* own request only, and nothing to the auth pipe.
C24_HandshakeLazyOnce ==
    [][ LET op == IF hpc' = "store" THEN pend'.op ELSE last'.verb
            mailboxes(sent) == Len(SelectSeq(sent, LAMBDA r : r.verb = "MAILBOX"))
        IN  /\ mailboxes(ps'.sent) <= 1
            /\ (hpc = "idle" /\ conn'.ops = conn.ops + 1)
                  => /\ ps'.handshakeDone
                           <=> (ps.handshakeDone \/ op \in {"List", "Stat", "Expunge"})
                     /\ ps.ready
                           => ps'.sent \in {ps.sent, Append(ps.sent, Request(op, pend'.uid))}
            /\ (hpc = "store" /\ ps'.ready /\ ~ps.ready)
                  => ps'.sent \in {ps.sent, Append(ps.sent, Request(pend.op, pend.uid))}
            /\ ps.ready
                  => /\ mailboxes(ps'.sent) = mailboxes(ps.sent)
                     /\ Len(ps'.sent) <= Len(ps.sent) + 1
                     /\ ps'.authBuf = ps.authBuf
                     /\ ps'.authCloses = ps.authCloses ]_vars

C24_Witness ==
    /\ hpc = "idle"
    /\ ps.ready
    /\ Len(ps.sent) = 3
    /\ ps.sent[1].verb = "MAILBOX"
    /\ ps.sent[2].verb = "COMMIT"
    /\ ps.sent[3].verb = "LIST"
    /\ last.verb = "List"
    /\ last.resp.ok

\* C25: in an authenticated session whose message list holds N messages,
\* GetMessage(i) is Ok for every visible i (1 <= i <= N, i not marked),
\* ErrMessageDeleted for every marked i, and ErrNoSuchMessage for every i
\* outside 1..N.  (A session that has no message list, because no store is
\* configured or the load failed, has no N: GetMessage is
\* ErrMailboxNotInitialized there.)
C25_GetMessageByVisibility ==
    (sess.state = StateTransaction /\ ~sess.listNil)
    => LET N == Len(sess.messageList) IN
       \A i \in -1..MaxMsgs + 2 :
          /\ (i \in 1..N /\ i \notin sess.deletedSet) => GetMessage(sess, i) = ErrNone
          /\ i \in sess.deletedSet => GetMessage(sess, i) = ErrMessageDeleted
          /\ i \notin 1..N => GetMessage(sess, i) = ErrNoSuchMessage

C25_Witness ==
    /\ hpc = "loop"
    /\ sess.state = StateTransaction
    /\ Len(sess.messageList) = 2
    /\ sess.deletedSet = {1}
    /\ last.verb = "LIST"
    /\ last.resp = Response(FALSE, "No such message")
    /\ GetMessage(sess, 1) = ErrMessageDeleted
    /\ GetMessage(sess, 2) = ErrNone
    /\ GetMessage(sess, 3) = ErrNoSuchMessage

\* C26: a STAT answered +OK in TRANSACTION, after whatever DELE and RSET came
\* before it, reports as count the number of messages whose index is not in
\* the deletion marks and as size the sum of the sizes of exactly those.
C26_StatCountsVisible ==
    [][ (LineStep /\ last'.verb = "STAT" /\ last'.resp.ok)
        => LET N == Len(sess.messageList)
               visible == {i \in 1..N : i \notin sess.deletedSet}
               sum[i \in 0..N] ==
                   IF i = 0 THEN 0
                   ELSE sum[i - 1] + (IF i \in visible THEN sess.messageList[i].size ELSE 0)
           IN  /\ sess.state = StateTransaction
               /\ last'.resp.nums = <<Cardinality(visible), sum[N]>>
               /\ sess'.deletedSet = sess.deletedSet
               /\ sess'.messageList = sess.messageList ]_vars

C26_Witness ==
    /\ hpc = "loop"
    /\ sess.state = StateTransaction
    /\ Len(sess.messageList) = 2
    /\ sess.deletedSet = {1}
    /\ last.verb = "STAT"
    /\ last.resp.ok
    /\ last.resp.nums = <<1, sess.messageList[2].size>>
    /\ last.wrote

\* C27: in TRANSACTION with a message list of N messages, DELE i marks i
\* when 1 <= i <= N and i is not marked yet; an i out of that range is
\* answered -ERR No such message and a marked i -ERR Message already deleted,
\* both leaving the marks as they were; DELE never marks anything else, so
\* the marks are a subset of 1..N at all times.  (Without a message list
\* DELE marks nothing and answers -ERR Failed to delete message.)
C27_DeleMarksInRange ==
    LET N == Len(sess.messageList) IN
    /\ sess.deletedSet \subseteq 1..N
    /\ sess.state = StateTransaction
          => \A tok \in {"0", "1", "2", "3", "9"} :
                LET i == Atoi(tok).v
                    r == Execute(sess, [name |-> "DELE", args |-> <<tok>>], conn.hasStore)
                IN  /\ r.need = "none"
                    /\ r.sess.deletedSet \in {sess.deletedSet, sess.deletedSet \cup {i}}
                    /\ r.sess.deletedSet # sess.deletedSet
                          <=> (r.resp.ok /\ i \in 1..N /\ i \notin sess.deletedSet)
                    /\ ~r.resp.ok => r.sess = sess
                    /\ ~sess.listNil =>
                          /\ (i \in 1..N /\ i \notin sess.deletedSet) => r.resp.ok
                          /\ i \notin 1..N => r.resp = Response(FALSE, "No such message")
                          /\ i \in sess.deletedSet
                                => r.resp = Response(FALSE, "Message already deleted")

C27_Witness ==
    /\ hpc = "loop"
    /\ sess.state = StateTransaction
    /\ Len(sess.messageList) = 2
    /\ sess.deletedSet = {2}
    /\ last.verb = "DELE"
    /\ last.resp = Response(FALSE, "Message already deleted")
    /\ last.wrote

\* C28: in TRANSACTION, RSET clears every deletion mark and leaves the
\* message list alone, so that the STAT after it reports all N messages and
\* the sum of all their sizes; starting where nothing is marked, any DELE
\* commands followed by RSET give back the STAT seen before them; and a
\* second RSET changes nothing.
C28_RsetRestoresStat ==
    sess.state = StateTransaction
    => LET cmd(name, args) == [name |-> name, args |-> args]
           stat(s) == Execute(s, cmd("STAT", <<>>), conn.hasStore).resp
           rset(s) == Execute(s, cmd("RSET", <<>>), conn.hasStore)
           dele(s, tok) == Execute(s, cmd("DELE", <<tok>>), conn.hasStore).sess
           N == Len(sess.messageList)
           sum[i \in 0..N] == IF i = 0 THEN 0 ELSE sum[i - 1] + sess.messageList[i].size
           toks == {"1", "2", "3"}
       IN  /\ rset(sess).resp.ok
           /\ rset(sess).sess.deletedSet = {}
           /\ rset(sess).sess.messageList = sess.messageList
           /\ stat(rset(sess).sess).nums = <<N, sum[N]>>
           /\ rset(rset(sess).sess) = rset(sess)
           /\ sess.deletedSet = {}
                 => \A t1 \in toks, t2 \in toks :
                       stat(rset(dele(dele(sess, t1), t2)).sess) = stat(sess)

C28_Witness ==
    /\ hpc = "loop"
    /\ sess.state = StateTransaction
    /\ Len(sess.messageList) = 2
    /\ sess.deletedSet = {}
    /\ last.verb = "RSET"
    /\ last.resp.ok
    /\ last.resp.nums = <<2>>
    /\ last.wrote
    /\ Execute(sess, [name |-> "STAT", args |-> <<>>], conn.hasStore).resp.nums
          = <<2, sess.messageList[1].size + sess.messageList[2].size>>

\* C29: a CAPA answered +OK, in whatever state it is sent, lists exactly TOP,
\* UIDL and RESP-CODES, and USER and SASL PLAIN if and only if TLS is active,
\* and STLS if and only if STLS is eligible, each of them once.
C29_CapabilitySet ==
    [][ (LineStep /\ last'.verb = "CAPA" /\ last'.resp.ok)
        => LET lines == last'.resp.lines
               caps == {lines[i][1] : i \in 1..Len(lines)}
           IN  /\ caps = {"TOP", "UIDL", "RESP-CODES"}
                         \cup (IF sess.tlsState = TLSStateActive
                               THEN {"USER", "SASL PLAIN"} ELSE {})
                         \cup (IF STLSEligible(sess) THEN {"STLS"} ELSE {})
               /\ Cardinality(caps) = Len(lines)
               /\ \A i \in 1..Len(lines) : Len(lines[i]) = 1 ]_vars

C29_Witness ==
    /\ hpc = "loop"
    /\ last.verb = "CAPA"
    /\ last.wrote
    /\ sess.state = StateAuthorization
    /\ sess.tlsState = TLSStateNone
    /\ last.resp.lines = << <<"TOP">>, <<"UIDL">>, <<"RESP-CODES">>, <<"STLS">> >>

\* C30: a reply to GET that reports a negative payload size is rejected:
\* Retrieve returns an error for it and hands no reader to the caller, so a
\* Retrieve that returned without error, and the reader it handed out, have
\* a size that is not negative.
C30_NegativeSizeRejected ==
    /\ (last.verb = "Retrieve" /\ last.resp.ok) => last.resp.nums[1] >= 0
    /\ rd.open => rd.size >= 0

\* a Retrieve that returned a reader for a +DATA -1 reply
C30_WitnessNegativeReader ==
    /\ hpc = "idle"
    /\ last.verb = "Retrieve"
    /\ last.resp.ok
    /\ rd.open
    /\ rd.size = -1

C40_StateMovesForward ==
    [][ sess'.state # sess.state
        => \/ sess.state = StateAuthorization /\ sess'.state = StateTransaction
           \/ sess.state = StateTransaction /\ sess'.state = StateUpdate ]_vars

C40_Witness ==
    /\ hpc = "exited"
    /\ conn.end = "quit"
    /\ sess.state = StateUpdate
    /\ conn.authed # <<>>
    /\ last.verb = "QUIT"
    /\ last.wrote
    /\ conn.expunges = 0

\* C38: in the protocol-handler no LIST, STAT, GET, DELETE or COMMIT request
\* is written to the session pipe before the MAILBOX handshake has succeeded,
\* although Retrieve and Delete do not check it themselves: a GET or DELETE
\* is only written for the uid of a message of the list a successful List
\* returned.
C38_RequestsOnlyAfterHandshake ==
    \A i \in 1..Len(ps.sent) :
       ps.sent[i].verb # "MAILBOX"
          => /\ ps.ready
             /\ i > 1
             /\ ps.sent[1].verb = "MAILBOX"
             /\ ps.sent[i].verb \in {"GET", "DELETE"}
                   => /\ ~sess.listNil
                      /\ \E n \in 1..Len(sess.messageList) :
                            sess.messageList[n].uid = ps.sent[i].arg

C38_Witness ==
    /\ hpc = "loop"
    /\ ps.ready
    /\ Len(ps.sent) = 3
    /\ ps.sent[1].verb = "MAILBOX"
    /\ ps.sent[2].verb = "LIST"
    /\ ps.sent[3].verb = "GET"
    /\ last.verb = "TOP"
    /\ last.resp.ok

\* Delete and Expunge calls of the QUIT case so far keep the order: they
\* follow the written +OK Logging out, at most one Expunge is issued, only
\* when every marked message has been handed to Delete, and no DELETE is
\* written after the COMMIT.
QuitOrderKept ==
    /\ ( \/ pend.op \in {"Delete", "Expunge"}
         \/ conn.deleted # {}
         \/ conn.expunges > 0 )
          => /\ last.verb = "QUIT"
             /\ last.wrote
             /\ last.wire = <<"+OK", SP, "Logging out", CR, LF>>
             /\ conn.end \in {"", "quit"}
    /\ conn.expunges > 0
          => /\ conn.expunges = 1
             /\ pend.todo = {}
             /\ conn.deleted = DeletedNums(sess)
             /\ conn.deleted # {}
    /\ \A i, j \in 1..Len(ps.sent) :
          (i < j /\ ps.sent[i].verb = "COMMIT") => ps.sent[j].verb \notin {"DELETE", "COMMIT"}

\* C33: on QUIT in TRANSACTION the handler first sends +OK Logging out, then
\* issues one Delete per marked message, then exactly one Expunge if a message
\* was marked (none otherwise), and only then closes; the Expunge follows all
\* Deletes and is issued even when a Delete failed.
C33_QuitAppliesInOrder ==
    /\ QuitOrderKept
    /\ (hpc = "exited" /\ sess.state = StateUpdate)
          => /\ conn.deleted = DeletedNums(sess)
             /\ conn.expunges = (IF DeletedNums(sess) # {} THEN 1 ELSE 0)

\* the part of C33 that the code keeps: the order, and the whole sequence
\* whenever the +OK Logging out was written
C33_QuitAppliesInOrderWhenSent ==
    /\ QuitOrderKept
    /\ (hpc = "exited" /\ sess.state = StateUpdate /\ last.wrote)
          => /\ conn.end = "quit"
             /\ conn.deleted = DeletedNums(sess)
             /\ conn.expunges = (IF DeletedNums(sess) # {} THEN 1 ELSE 0)

\* two messages deleted, the Expunge issued although the mail-session had
\* gone before the Deletes
C33_WitnessExpungeAfterFailedDelete ==
    /\ hpc = "exited"
    /\ conn.end = "quit"
    /\ conn.deleted = {1, 2}
    /\ conn.expunges = 1
    /\ ms.state = "exited"
    /\ ~(\E i \in 1..Len(ps.sent) : ps.sent[i].verb = "DELETE" /\ ms.answered >= i)

\* goroutines that hold a slot
Holders == {i \in Callers : lim.g[i].held}

\* every goroutine has made a call of TryAcquire and none is inside one
AllTried == \A i \in Callers : lim.g[i].pc = "idle" /\ lim.g[i].tried

\* C36: under any interleaving of TryAcquire and Release (each Release after
\* the caller's own successful TryAcquire) the slots held never exceed
\* max and the counter equals them; when more than max goroutines
\* have raced on TryAcquire and none has released, exactly max of them
\* succeeded; once every holder has released, Current() is 0.
C36_LimiterNeverExceedsMax ==
    /\ Cardinality(Holders) <= lim.l.maxConnections
    /\ Current(lim.l) = Cardinality(Holders)
    /\ (AllTried /\ lim.releases = 0 /\ NCallers > lim.l.maxConnections)
          => /\ Cardinality(Holders) = lim.l.maxConnections
             /\ Cardinality({i \in Callers : lim.g[i].won}) = lim.l.maxConnections
    /\ Holders = {} => Current(lim.l) = 0

\* three goroutines raced for two slots, one lost a swap and went round the
\* loop, none released: two hold a slot
C36_WitnessRace ==
    /\ AllTried
    /\ lim.releases = 0
    /\ lim.l.maxConnections = 2
    /\ Cardinality(Holders) = 2
    /\ Current(lim.l) = 2
    /\ \E i \in Callers : ~lim.g[i].won
    /\ \E i \in Holders : lim.g[i].spun

\* every goroutine has acquired and released: the counter is back at 0
C36_WitnessAllReleased ==
    /\ \A i \in Callers : lim.g[i].pc = "idle" /\ lim.g[i].won
    /\ lim.releases >= NCallers
    /\ Holders = {}
    /\ Current(lim.l) = 0

\* the store is inside handshake, past the write of the auth signal
InHandshake == hpc = "store" /\ pend.at \in {"hsSend", "hsRecv"}

SignalComplete == readAuthSignal(ps.authBuf, FALSE).st = "ok"

\* C32: the dispatcher is never left blocked on authPipeR.  Once the store's
\* handshake was entered (the signal is written in full, or the deferred close
\* has run), or the protocol-handler has exited, the dispatcher returns; and it
\* returns only when it has read a complete auth signal or seen the end of
\* the pipe.
C32_DispatcherNeverLeftBlocked ==
    /\ (ps.handshakeDone \/ hpc = "exited") ~> disp.pc = "done"
    /\ [](ps.handshakeDone => SignalComplete \/ ps.authCloses = 1)
    /\ [](disp.pc = "done"
            => /\ disp.outcome # ""
               /\ SignalComplete \/ ps.authCloses = 1 \/ hpc = "exited"
               /\ disp.outcome = "auth signal error" <=> ~SignalComplete)

\* the protocol-handler exited without authenticating: the dispatcher saw the
\* end of the pipe and returned
C32_Witness ==
    /\ disp.pc = "done"
    /\ disp.outcome = "auth signal error"
    /\ hpc = "exited"
    /\ ps.authBuf = <<>>
    /\ ps.authCloses = 0
    /\ ~ps.handshakeDone

\* the handshake failed on the write of the signal: the deferred close let the
\* dispatcher return while the session goes on
C32_WitnessFailedHandshake ==
    /\ disp.pc = "done"
    /\ disp.outcome = "auth signal error"
    /\ hpc = "loop"
    /\ ps.handshakeDone
    /\ ~SignalComplete
    /\ ps.authCloses = 1

\* the dispatcher failed after the auth signal was sent
DispatcherFailed ==
    /\ disp.pc = "done"
    /\ disp.outcome \in {"auth signal error", "lookup failed", "start failed"}
    /\ ps.authBuf # <<>>

\* C31: when the dispatcher fails after the auth signal was sent (signal
\* malformed, credential lookup failed, mail-session start failed) no
\* mail-session is started and the listener's ends of the session pipes are
\* closed, and the store call the protocol-handler is in does not block: it
\* returns an error, answered -ERR.
C31_DispatcherFailureIsSeen ==
    /\ [](DispatcherFailed
            => /\ ms.state = "none"
               /\ disp.spawned = 0
               /\ ~disp.sessOpen
               /\ ~Alive
               /\ ~ps.ready)
    /\ (DispatcherFailed /\ hpc \in {"call", "store"})
          ~> /\ hpc \in {"loop", "exited"}
             /\ last.verb \in {"PASS", "AUTH", "SASL"}
             /\ last.resp = Response(FALSE, last.resp.msg)
             /\ last.wrote => last.wire[1] = "-ERR"
             /\ ~ps.ready

\* the credential lookup failed while the store waited for the MAILBOX reply:
\* PASS was answered -ERR and the session goes on
C31_Witness ==
    /\ DispatcherFailed
    /\ disp.outcome = "lookup failed"
    /\ hpc = "loop"
    /\ last.verb = "PASS"
    /\ ~last.resp.ok
    /\ last.wrote
    /\ ps.sent = <<Req("MAILBOX", conn.authed[1])>>
    /\ ps.reads = 1

\* the listener is done with connection c: spawnHandler returned without
\* starting a dispatcher, or the dispatcher has run to its return
ListenerDone(c) ==
    \/ c.spawn \notin {"", "spawned"}
    \/ c.d \in {"reap", "returned"}

\* C34: for every accepted connection, on every path, each fd the listener
\* duplicated or created is closed by it exactly once by the time the
\* dispatcher returns (none leaked, none closed twice); after a successful
\* spawn the listener holds only authPipeR, toSessR and fromSessW.
C34_EveryFdClosedOnce ==
    \A k \in 1..Len(lsn.conns) :
       LET c == lsn.conns[k] IN
       /\ \A f \in FdNames : c.fds[f].closes <= 1 /\ (c.fds[f].closes = 1 => c.fds[f].made)
       /\ ListenerDone(c) => OpenFds(c.fds) = {}
       /\ (c.spawn = "spawned" /\ c.d = "read")
             => OpenFds(c.fds) = {"authPipeR", "toSessR", "fromSessW"}
       /\ c.spawn = "" => OpenFds(c.fds) = {"conn"}

\* one connection dropped because the third pipe could not be made, one
\* served to the end: all fds made are closed
C34_Witness ==
    /\ Len(lsn.conns) = 2
    /\ lsn.conns[1].spawn = "toSess pipe failed"
    /\ {f \in FdNames : lsn.conns[1].fds[f].made}
          = {"conn", "connFile", "authPipeR", "authPipeW", "fromSessR", "fromSessW"}
    /\ lsn.conns[2].spawn = "spawned"
    /\ lsn.conns[2].dispatch = "spawned"
    /\ lsn.conns[2].d = "returned"
    /\ \A f \in FdNames : lsn.conns[2].fds[f].made /\ lsn.conns[2].fds[f].closes = 1

\* dispatcher goroutines that have not returned
Dispatchers == {k \in 1..Len(lsn.conns) : lsn.conns[k].d \in {"read", "reap"}}

\* What the shutdown does to the accept side and leaves to the sessions: once
\* Run is past <-ctx.Done() every accept socket is closed and no connection
\* is accepted any more, Run returns only when the context is cancelled and
\* every accept loop has returned, and no step of the shutdown ends or
\* changes a session in progress.
ShutdownDrains ==
    /\ [](lsn.run # "serving"
            => /\ lsn.ctx = "cancelled"
               /\ \A i \in Listeners : lsn.ln[i] = "closed")
    /\ [](lsn.run = "returned" => \A i \in Listeners : lsn.loop[i] = "exited")
    /\ [][lsn.run # "serving" => Len(lsn'.conns) = Len(lsn.conns)]_vars
    /\ [][(lsn'.ctx # lsn.ctx \/ lsn'.run # lsn.run \/ lsn'.ln # lsn.ln)
             => \A k \in 1..Len(lsn.conns) :
                   /\ lsn'.conns[k].h = lsn.conns[k].h
                   /\ lsn'.conns[k].d = lsn.conns[k].d
                   /\ lsn'.conns[k].fds = lsn.conns[k].fds]_vars

\* C35: a listener-level shutdown (context cancelled) closes every accept
\* socket and signals the dispatcher goroutines by cancelling their context;
\* Run returns once all accept loops have exited, no connection is accepted
\* afterwards, and sessions in progress are not terminated by the shutdown.
C35_ShutdownSignalsDispatchers ==
    /\ ShutdownDrains
    /\ [](lsn.ctx = "cancelled" => \A k \in Dispatchers : lsn.conns[k].dctx = "cancelled")

\* the part of C35 that the code keeps: all of it but the signal to the
\* dispatchers, which are given no context
C35_ShutdownDrainsSessions ==
    /\ ShutdownDrains
    /\ [](\A k \in 1..Len(lsn.conns) : lsn.conns[k].dctx = "none")

\* Run has returned while a dispatcher still waits for the auth signal of a
\* running protocol-handler
C35_WitnessSessionOutlivesRun ==
    /\ lsn.run = "returned"
    /\ \E k \in Dispatchers :
          /\ lsn.conns[k].d = "read"
          /\ lsn.conns[k].h = "running"
          /\ lsn.conns[k].dctx = "none"

====
